---------------------------- MODULE Spec2Model ----------------------------
(***************************************************************************)
(* A state-machine model of PortableTerm2 (anirban-ghosh/muxterm):         *)
(*   - the renderer's tmux control-mode client and workspace (App.tsx),    *)
(*   - the layout tree and the tmux parsers (lib/layout.ts, lib/tmux.ts),  *)
(*   - the main-process PTY session manager (electron/main.ts) and the     *)
(*     PTY helper process (electron/pty-helper.cjs).                       *)
(* Strings are sequences of one-character strings, so that prefix tests,   *)
(* splitting and joining are computed as the code computes them.           *)
(***************************************************************************)
EXTENDS Integers, Sequences, FiniteSets, TLC

(***************************************************************************)
(* Bounds of the model.                                                    *)
(***************************************************************************)
MaxCaptures == 3
MaxSeen == 2
MaxPtyData == 2
MaxEvents == 3
MaxHelperQueue == 2
MaxLayoutPanes == 4
MaxStream == 5
MaxProbes == 2
MaxShellData == 4
MaxPayload == 4

(***************************************************************************)
(* String helpers.                                                         *)
(***************************************************************************)
StartsWith(s, p) ==
  /\ Len(p) <= Len(s)
  /\ SubSeq(s, 1, Len(p)) = p

RECURSIVE Join(_, _)
Join(lines, sep) ==
  IF Len(lines) = 0 THEN << >>
  ELSE IF Len(lines) = 1 THEN lines[1]
  ELSE lines[1] \o sep \o Join(Tail(lines), sep)

Block == "x*524288"
ChunkY == "y*300000"
ChunkZ == "z*300000"
S_pct == <<"%">>
S_begin == <<"%", "b", "e", "g", "i", "n">>
S_end == <<"%", "e", "n", "d">>
S_error == <<"%", "e", "r", "r", "o", "r">>
S_nl == <<"\n">>
S_capturePane ==
  <<"c", "a", "p", "t", "u", "r", "e", "-", "p", "a", "n", "e", " ",
    "-", "p", " ", "-", "J", " ", "-", "S", " ", "-", "3", "0", "0", "0", " ",
    "-", "t", " ">>


(***************************************************************************)
(* Character classes and scanning helpers (JavaScript regular expression   *)
(* classes \d, \s and ".", String.indexOf, split and trim).  "ESC" stands  *)
(* for the character U+001B.                                               *)
(***************************************************************************)
Digits == {"0", "1", "2", "3", "4", "5", "6", "7", "8", "9"}
OctalDigits == {"0", "1", "2", "3", "4", "5", "6", "7"}
Space == {" ", "\t", "\n", "\r"}
LineTerminators == {"\n", "\r"}

At(s, i, ch) == i >= 1 /\ i <= Len(s) /\ s[i] = ch

Slice(s, i) == IF i > Len(s) THEN << >> ELSE SubSeq(s, i, Len(s))

\* The first index >= i whose character is outside `class` (Len(s)+1 if none).
RECURSIVE RunEnd(_, _, _)
RunEnd(s, i, class) ==
  IF i <= Len(s) /\ s[i] \in class THEN RunEnd(s, i + 1, class) ELSE i

AllDot(s) == \A i \in DOMAIN s : s[i] \notin LineTerminators

\* String.indexOf from position i; 0 when absent (indices are 1-based).
RECURSIVE IndexOfFrom(_, _, _)
IndexOfFrom(s, sub, i) ==
  IF i + Len(sub) - 1 > Len(s) THEN 0
  ELSE IF SubSeq(s, i, i + Len(sub) - 1) = sub THEN i
  ELSE IndexOfFrom(s, sub, i + 1)

IndexOf(s, sub) == IndexOfFrom(s, sub, 1)

RECURSIVE Split(_, _)
Split(s, sep) ==
  LET i == IndexOf(s, sep) IN
  IF i = 0 THEN <<s>>
  ELSE <<SubSeq(s, 1, i - 1)>> \o Split(Slice(s, i + Len(sep)), sep)

RECURSIVE TrimStart(_)
TrimStart(s) == IF Len(s) > 0 /\ s[1] \in Space THEN TrimStart(Tail(s)) ELSE s

RECURSIVE TrimEnd(_)
TrimEnd(s) ==
  IF Len(s) > 0 /\ s[Len(s)] \in Space THEN TrimEnd(SubSeq(s, 1, Len(s) - 1)) ELSE s

Trim(s) == TrimEnd(TrimStart(s))

DigitValue(ch) ==
  CASE ch = "0" -> 0 [] ch = "1" -> 1 [] ch = "2" -> 2 [] ch = "3" -> 3
    [] ch = "4" -> 4 [] ch = "5" -> 5 [] ch = "6" -> 6 [] ch = "7" -> 7
    [] ch = "8" -> 8 [] ch = "9" -> 9

\* Number.parseInt(digits, base)
RECURSIVE ParseInt(_, _)
ParseInt(ds, base) ==
  IF Len(ds) = 0 THEN 0
  ELSE ParseInt(SubSeq(ds, 1, Len(ds) - 1), base) * base + DigitValue(ds[Len(ds)])

RECURSIVE Gcd(_, _)
Gcd(a, b) == IF b = 0 THEN a ELSE Gcd(b, a % b)

\* A ratio is the fraction <<n, d>> in lowest terms.
Ratio(n, d) == LET g == Gcd(n, d) IN <<n \div g, d \div g>>

Half == <<1, 2>>

\* NaN is 0/0; a fraction <<n, 0>> with n # 0 is an infinity.
NaN == <<0, 0>>

\* Math.min(0.9, Math.max(0.1, r)) of mapNode; NaN passes through both.
boundRatio(r) ==
  IF 10 * r[1] < r[2] THEN <<1, 10>>
  ELSE IF 10 * r[1] > 9 * r[2] THEN <<9, 10>>
  ELSE r

\* Mutant: NaN is coerced, nothing is clamped.
clampRatio_Unclamped(r) == IF r = NaN THEN Half ELSE r

\* clampRatio of App.tsx
clampRatio(r) == IF r = NaN THEN Half ELSE boundRatio(r)

S_socketMarker == <<"_", "_", "S", "O", "C", "K", "E", "T", "_", "_", ":", ":">>
S_paneMarker == <<"_", "_", "P", "A", "N", "E", "_", "_", ":", ":">>
S_windowMarker == <<"_", "_", "W", "I", "N", "D", "O", "W", "_", "_", ":", ":">>
S_sep == <<":", ":">>
S_output == <<"%", "o", "u", "t", "p", "u", "t">>
S_extendedOutput ==
  <<"%", "e", "x", "t", "e", "n", "d", "e", "d", "-", "o", "u", "t", "p", "u", "t">>
S_windowAdd == <<"%", "w", "i", "n", "d", "o", "w", "-", "a", "d", "d">>
S_windowClose == <<"%", "w", "i", "n", "d", "o", "w", "-", "c", "l", "o", "s", "e">>
S_windowRenamed ==
  <<"%", "w", "i", "n", "d", "o", "w", "-", "r", "e", "n", "a", "m", "e", "d">>
S_layoutChange ==
  <<"%", "l", "a", "y", "o", "u", "t", "-", "c", "h", "a", "n", "g", "e">>
S_windowPaneChanged ==
  <<"%", "w", "i", "n", "d", "o", "w", "-", "p", "a", "n", "e", "-",
    "c", "h", "a", "n", "g", "e", "d">>
S_sessionChanged ==
  <<"%", "s", "e", "s", "s", "i", "o", "n", "-", "c", "h", "a", "n", "g", "e", "d">>
S_syntheticLayout == <<"8", "0", "x", "2", "4", ",", "0", ",", "0", ",", "0">>
S_pane0 == <<"%", "0">>
S_pane1 == <<"%", "1">>


(***************************************************************************)
(* lib/tmux.ts: the layout parser.  A parse result is                      *)
(* [ok, idx, width, height, node]; ok = FALSE stands for a thrown Error.   *)
(***************************************************************************)
stripChecksum(layout) ==
  LET firstComma == IndexOf(layout, <<",">>)
      firstX == IndexOf(layout, <<"x">>)
  IN  IF firstComma > 0 /\ firstX > 0 /\ firstComma < firstX
      THEN Slice(layout, firstComma + 1)
      ELSE layout

ParseFail == [ok |-> FALSE, idx |-> 0, width |-> 0, height |-> 0, node |-> << >>]

\* LayoutParser.readNumber: [ok, val, idx]
readNumber(s, i) ==
  LET j == RunEnd(s, i, Digits) IN
  IF j = i THEN [ok |-> FALSE, val |-> 0, idx |-> i]
  ELSE [ok |-> TRUE, val |-> ParseInt(SubSeq(s, i, j - 1), 10), idx |-> j]

TmuxPaneNode(tmuxPaneId) == [type |-> "pane", tmuxPaneId |-> tmuxPaneId]

\* LayoutParser.foldChildren, for a non-empty list of parsed cells.
RECURSIVE foldFrom(_, _, _, _)
foldFrom(children, direction, i, current) ==
  IF i > Len(children) THEN current.node
  ELSE LET next == children[i]
           currentSpan == IF direction = "horizontal" THEN current.width
                          ELSE current.height
           nextSpan == IF direction = "horizontal" THEN next.width ELSE next.height
           total == IF currentSpan + nextSpan > 1 THEN currentSpan + nextSpan ELSE 1
       IN foldFrom(children, direction, i + 1,
            [width |-> IF direction = "horizontal"
                       THEN current.width + next.width ELSE current.width,
             height |-> IF direction = "vertical"
                        THEN current.height + next.height ELSE current.height,
             node |-> [type |-> "split", direction |-> direction,
                       ratio |-> Ratio(currentSpan, total),
                       first |-> current.node, second |-> next.node]])

\* Mutant: each split is sized by its last two cells alone.
RECURSIVE foldFrom_LastSpan(_, _, _, _)
foldFrom_LastSpan(children, direction, i, current) ==
  IF i > Len(children) THEN current.node
  ELSE LET next == children[i]
           currentSpan == IF direction = "horizontal" THEN current.width
                          ELSE current.height
           nextSpan == IF direction = "horizontal" THEN next.width ELSE next.height
           total == IF currentSpan + nextSpan > 1 THEN currentSpan + nextSpan ELSE 1
       IN foldFrom_LastSpan(children, direction, i + 1,
            [width |-> next.width, height |-> next.height,
             node |-> [type |-> "split", direction |-> direction,
                       ratio |-> Ratio(currentSpan, total),
                       first |-> current.node, second |-> next.node]])

foldChildren_LastSpan(children, direction) ==
  foldFrom_LastSpan(children, direction, 2,
                    [width |-> children[1].width, height |-> children[1].height,
                     node |-> children[1].node])

foldChildren(children, direction) ==
  foldFrom(children, direction, 2,
           [width |-> children[1].width, height |-> children[1].height,
            node |-> children[1].node])

RECURSIVE parseCell(_, _)
RECURSIVE parseChildren(_, _, _, _)
parseChildren(s, i, close, acc) ==
  IF At(s, i, close) THEN [ok |-> TRUE, idx |-> i, children |-> acc]
  ELSE LET child == parseCell(s, i) IN
       IF ~child.ok THEN [ok |-> FALSE, idx |-> i, children |-> acc]
       ELSE parseChildren(s, IF At(s, child.idx, ",") THEN child.idx + 1 ELSE child.idx,
                          close, Append(acc, child))

parseCell(s, i) ==
  LET width == readNumber(s, i) IN
  IF ~width.ok \/ ~At(s, width.idx, "x") THEN ParseFail ELSE
  LET height == readNumber(s, width.idx + 1) IN
  IF ~height.ok \/ ~At(s, height.idx, ",") THEN ParseFail ELSE
  LET xoff == readNumber(s, height.idx + 1) IN
  IF ~xoff.ok \/ ~At(s, xoff.idx, ",") THEN ParseFail ELSE
  LET yoff == readNumber(s, xoff.idx + 1) IN
  IF ~yoff.ok THEN ParseFail ELSE
  IF At(s, yoff.idx, "[") \/ At(s, yoff.idx, "{")
  THEN LET close == IF At(s, yoff.idx, "[") THEN "]" ELSE "}"
           direction == IF At(s, yoff.idx, "[") THEN "vertical" ELSE "horizontal"
           kids == parseChildren(s, yoff.idx + 1, close, << >>)
       IN IF ~kids.ok \/ Len(kids.children) = 0 THEN ParseFail
          ELSE [ok |-> TRUE, idx |-> kids.idx + 1,
                width |-> width.val, height |-> height.val,
                node |-> foldChildren(kids.children, direction)]
  ELSE IF ~At(s, yoff.idx, ",") THEN ParseFail ELSE
       LET paneNumericId == readNumber(s, yoff.idx + 1) IN
       IF ~paneNumericId.ok THEN ParseFail
       ELSE [ok |-> TRUE, idx |-> paneNumericId.idx,
             width |-> width.val, height |-> height.val,
             node |-> TmuxPaneNode(<<"%">> \o
                        SubSeq(s, yoff.idx + 1, paneNumericId.idx - 1))]

\* new LayoutParser(layout).parse()
LayoutParser_parse(layout) == parseCell(stripChecksum(layout), 1)


(***************************************************************************)
(* lib/tmux.ts: decodeTmuxEscapedText, parseTmuxControlLine and            *)
(* parseBootstrapWindowLine; App.tsx: sanitizeTmuxOutput,                  *)
(* parseSocketPathLine and parseBootstrapPaneLine.                         *)
(***************************************************************************)
\* String.fromCharCode for the codes that occur in the modelled payloads.
FromCharCode(n) ==
  CASE n = 27 -> "ESC" [] n = 9 -> "\t" [] n = 10 -> "\n" [] n = 13 -> "\r"
    [] n = 32 -> " " [] n = 65 -> "A" [] n = 66 -> "B" [] n = 92 -> "\\"
    [] n = 97 -> "a"
    [] OTHER -> "u" \o ToString(n)

RECURSIVE decodeFrom(_, _)
decodeFrom(payload, i) ==
  IF i > Len(payload) THEN << >>
  ELSE IF payload[i] # "\\" THEN <<payload[i]>> \o decodeFrom(payload, i + 1)
  ELSE IF At(payload, i + 1, "\\") THEN <<"\\">> \o decodeFrom(payload, i + 2)
  ELSE IF /\ i + 3 <= Len(payload)
          /\ payload[i + 1] \in OctalDigits
          /\ payload[i + 2] \in OctalDigits
          /\ payload[i + 3] \in OctalDigits
       THEN <<FromCharCode(ParseInt(SubSeq(payload, i + 1, i + 3), 8))>>
              \o decodeFrom(payload, i + 4)
  ELSE IF At(payload, i + 1, "n") THEN <<"\n">> \o decodeFrom(payload, i + 2)
  ELSE IF At(payload, i + 1, "r") THEN <<"\r">> \o decodeFrom(payload, i + 2)
  ELSE IF At(payload, i + 1, "t") THEN <<"\t">> \o decodeFrom(payload, i + 2)
  ELSE IF i + 1 <= Len(payload)
       THEN <<payload[i + 1]>> \o decodeFrom(payload, i + 2)
  ELSE << >>

\* Mutant: the payload is taken as it is.
decodeTmuxEscapedText_Raw(payload) == payload

decodeTmuxEscapedText(payload) == decodeFrom(payload, 1)

\* String.replace(/pattern/g, "") for a literal pattern.
RECURSIVE RemoveAll(_, _)
RemoveAll(s, pat) ==
  LET i == IndexOf(s, pat) IN
  IF i = 0 THEN s
  ELSE SubSeq(s, 1, i - 1) \o RemoveAll(Slice(s, i + Len(pat)), pat)

sanitizeTmuxOutput(data) ==
  RemoveAll(RemoveAll(data, <<"ESC", "[", "?", "3", "J">>), <<"ESC", "[", "3", "J">>)

\* parseSocketPathLine: the socket path, or << >> for null.
parseSocketPathLine(line) ==
  LET idx == IndexOf(line, S_socketMarker) IN
  IF idx = 0 THEN << >> ELSE Trim(Slice(line, idx + Len(S_socketMarker)))

NoPaneLine == [ok |-> FALSE, windowId |-> << >>, paneId |-> << >>]

parseBootstrapPaneLine(line) ==
  IF ~StartsWith(line, S_paneMarker) THEN NoPaneLine
  ELSE LET parts == Split(Slice(line, Len(S_paneMarker) + 1), S_sep) IN
       IF Len(parts) < 2 THEN NoPaneLine
       ELSE IF Len(parts[1]) = 0 \/ Len(parts[2]) = 0 THEN NoPaneLine
       ELSE [ok |-> TRUE, windowId |-> parts[1], paneId |-> parts[2]]

NoWindowLine == [ok |-> FALSE, windowId |-> << >>, name |-> << >>, layout |-> << >>]

parseBootstrapWindowLine(line) ==
  IF ~StartsWith(line, S_windowMarker) THEN NoWindowLine
  ELSE LET parts == Split(Slice(line, Len(S_windowMarker) + 1), S_sep) IN
       IF Len(parts) < 3 THEN NoWindowLine
       ELSE [ok |-> TRUE, windowId |-> parts[1], name |-> parts[2],
             layout |-> Join(SubSeq(parts, 3, Len(parts)), S_sep)]

Ev(type) == [type |-> type, paneId |-> << >>, windowId |-> << >>,
             data |-> << >>, name |-> << >>, layout |-> << >>]

\* "^<word>\s+(<sigil>\d+)": [ok, id, idx], idx being the position after the id.
HeadId(line, i, sigil) ==
  LET j == RunEnd(line, i, Space)
      k == RunEnd(line, j + 1, Digits)
  IN  IF j > i /\ At(line, j, sigil) /\ k > j + 1
      THEN [ok |-> TRUE, id |-> SubSeq(line, j, k - 1), idx |-> k]
      ELSE [ok |-> FALSE, id |-> << >>, idx |-> 0]

\* "(?:\s+.*)?$" from position k.
TailOk(line, k) ==
  \/ k > Len(line)
  \/ /\ line[k] \in Space
     /\ AllDot(Slice(line, RunEnd(line, k, Space)))

\* "\s?(.*)$" from position k: [ok, data]
OutputData(line, k) ==
  LET start == IF k <= Len(line) /\ line[k] \in Space THEN k + 1 ELSE k
      data == Slice(line, start)
  IN  [ok |-> AllDot(data), data |-> data]

\* "\s+(.+)$" from position k: [ok, text]
RestText(line, k) ==
  LET j == RunEnd(line, k, Space) IN
  IF j = k THEN [ok |-> FALSE, text |-> << >>]
  ELSE IF j <= Len(line) THEN [ok |-> AllDot(Slice(line, j)), text |-> Slice(line, j)]
  ELSE IF j - k >= 2 /\ line[Len(line)] \notin LineTerminators
       THEN [ok |-> TRUE, text |-> <<line[Len(line)]>>]
  ELSE [ok |-> FALSE, text |-> << >>]

RECURSIVE RunEndNotSpace(_, _)
RunEndNotSpace(s, i) ==
  IF i <= Len(s) /\ s[i] \notin Space THEN RunEndNotSpace(s, i + 1) ELSE i

parseTmuxControlLine(line) ==
  LET out == HeadId(line, Len(S_output) + 1, "%")
      outData == OutputData(line, out.idx)
      ext == HeadId(line, Len(S_extendedOutput) + 1, "%")
      extWs == RunEnd(line, ext.idx, Space)
      extNum == RunEnd(line, extWs, Digits)
      extData == OutputData(line, extNum)
      add == HeadId(line, Len(S_windowAdd) + 1, "@")
      close == HeadId(line, Len(S_windowClose) + 1, "@")
      ren == HeadId(line, Len(S_windowRenamed) + 1, "@")
      renName == RestText(line, ren.idx)
      lay == HeadId(line, Len(S_layoutChange) + 1, "@")
      layWs == RunEnd(line, lay.idx, Space)
      layEnd == RunEndNotSpace(line, layWs)
      pch == HeadId(line, Len(S_windowPaneChanged) + 1, "@")
      pchPane == HeadId(line, pch.idx, "%")
      sesWs == RunEnd(line, Len(S_sessionChanged) + 1, Space)
      sesNum == IF At(line, sesWs, "$") THEN sesWs + 1 ELSE sesWs
      sesEnd == RunEnd(line, sesNum, Digits)
      sesName == RestText(line, sesEnd)
  IN
  IF StartsWith(line, S_begin) THEN Ev("begin")
  ELSE IF StartsWith(line, S_end) THEN Ev("end")
  ELSE IF StartsWith(line, S_error)
       THEN [Ev("error") EXCEPT !.data = Trim(Slice(line, 7))]
  ELSE IF StartsWith(line, S_output) /\ out.ok /\ outData.ok
       THEN [Ev("output") EXCEPT !.paneId = out.id,
                                 !.data = decodeTmuxEscapedText(outData.data)]
  ELSE IF /\ StartsWith(line, S_extendedOutput) /\ ext.ok
          /\ extWs > ext.idx /\ extNum > extWs /\ extData.ok
       THEN [Ev("output") EXCEPT !.paneId = ext.id,
                                 !.data = decodeTmuxEscapedText(extData.data)]
  ELSE IF StartsWith(line, S_windowAdd) /\ add.ok /\ TailOk(line, add.idx)
       THEN [Ev("window-add") EXCEPT !.windowId = add.id]
  ELSE IF StartsWith(line, S_windowClose) /\ close.ok /\ TailOk(line, close.idx)
       THEN [Ev("window-close") EXCEPT !.windowId = close.id]
  ELSE IF StartsWith(line, S_windowRenamed) /\ ren.ok /\ renName.ok
       THEN [Ev("window-renamed") EXCEPT !.windowId = ren.id, !.name = renName.text]
  ELSE IF /\ StartsWith(line, S_layoutChange) /\ lay.ok
          /\ layWs > lay.idx /\ layEnd > layWs /\ AllDot(Slice(line, layEnd))
       THEN [Ev("layout-change") EXCEPT !.windowId = lay.id,
                                        !.layout = SubSeq(line, layWs, layEnd - 1)]
  ELSE IF /\ StartsWith(line, S_windowPaneChanged) /\ pch.ok /\ pchPane.ok
          /\ TailOk(line, pchPane.idx)
       THEN [Ev("window-pane-changed") EXCEPT !.windowId = pch.id,
                                              !.paneId = pchPane.id]
  ELSE IF /\ StartsWith(line, S_sessionChanged) /\ sesWs > Len(S_sessionChanged) + 1
          /\ sesEnd > sesNum /\ sesName.ok
       THEN [Ev("session-changed") EXCEPT !.name = sesName.text]
  ELSE Ev("other")


(***************************************************************************)
(* lib/layout.ts and the layout helpers of App.tsx.  A layout node is      *)
(* [type |-> "pane", paneId] or [type |-> "split", direction, ratio,       *)
(* first, second]; NullNode stands for null.                               *)
(***************************************************************************)
NullNode == [type |-> "null"]

singlePaneLayout(paneId) == [type |-> "pane", paneId |-> paneId]

RECURSIVE splitLayoutAtPane_NoInsert(_, _, _, _)
\* Mutant: the target leaf is found but the new pane is not inserted.
splitLayoutAtPane_NoInsert(layout, targetPaneId, direction, newPaneId) ==
  IF layout.type = "pane" THEN layout
  ELSE [layout EXCEPT
          !.first = splitLayoutAtPane_NoInsert(layout.first, targetPaneId,
                                               direction, newPaneId),
          !.second = splitLayoutAtPane_NoInsert(layout.second, targetPaneId,
                                                direction, newPaneId)]

RECURSIVE splitLayoutAtPane_Twin(_, _, _, _)
\* Mutant: the second child is the target leaf again.
splitLayoutAtPane_Twin(layout, targetPaneId, direction, newPaneId) ==
  IF layout.type = "pane"
  THEN IF layout.paneId # targetPaneId THEN layout
       ELSE [type |-> "split", direction |-> direction, ratio |-> Half,
             first |-> layout, second |-> layout]
  ELSE [layout EXCEPT
          !.first = splitLayoutAtPane_Twin(layout.first, targetPaneId, direction, newPaneId),
          !.second = splitLayoutAtPane_Twin(layout.second, targetPaneId, direction, newPaneId)]

RECURSIVE splitLayoutAtPane(_, _, _, _)
splitLayoutAtPane(layout, targetPaneId, direction, newPaneId) ==
  IF layout.type = "pane"
  THEN IF layout.paneId # targetPaneId THEN layout
       ELSE [type |-> "split", direction |-> direction, ratio |-> Half,
             first |-> layout, second |-> singlePaneLayout(newPaneId)]
  ELSE [layout EXCEPT
          !.first = splitLayoutAtPane(layout.first, targetPaneId, direction, newPaneId),
          !.second = splitLayoutAtPane(layout.second, targetPaneId, direction, newPaneId)]

RECURSIVE removePaneRec(_, _)
removePaneRec(layout, paneId) ==
  IF layout.type = "pane"
  THEN IF layout.paneId = paneId THEN [node |-> NullNode, removed |-> TRUE]
       ELSE [node |-> layout, removed |-> FALSE]
  ELSE LET left == removePaneRec(layout.first, paneId)
           right == removePaneRec(layout.second, paneId)
       IN  IF ~left.removed /\ ~right.removed THEN [node |-> layout, removed |-> FALSE]
           ELSE IF left.node = NullNode /\ right.node # NullNode
                THEN [node |-> right.node, removed |-> TRUE]
           ELSE IF left.node # NullNode /\ right.node = NullNode
                THEN [node |-> left.node, removed |-> TRUE]
           ELSE IF left.node = NullNode /\ right.node = NullNode
                THEN [node |-> NullNode, removed |-> TRUE]
           ELSE [node |-> [layout EXCEPT !.first = left.node, !.second = right.node],
                 removed |-> TRUE]

\* Mutant: the split left at the root gets the ratio of a new split.
removePaneFromLayout_ResetRatio(layout, paneId) ==
  LET node == removePaneRec(layout, paneId).node IN
  IF node.type = "split" THEN [node EXCEPT !.ratio = Half] ELSE node

removePaneFromLayout(layout, paneId) == removePaneRec(layout, paneId).node

RECURSIVE collectPaneIds(_)
collectPaneIds(layout) ==
  IF layout.type = "pane" THEN <<layout.paneId>>
  ELSE collectPaneIds(layout.first) \o collectPaneIds(layout.second)

\* Mutant: the new layout is taken as it was parsed.
preserveSplitRatios_TakeNext(previous, next) == next

RECURSIVE preserveSplitRatios_Reset(_, _)
\* Mutant: a matching split gets the ratio of a fresh split.
preserveSplitRatios_Reset(previous, next) ==
  IF previous.type # "split" \/ next.type # "split" THEN next
  ELSE IF previous.direction # next.direction THEN next
  ELSE [next EXCEPT !.ratio = Half,
                    !.first = preserveSplitRatios_Reset(previous.first, next.first),
                    !.second = preserveSplitRatios_Reset(previous.second, next.second)]

RECURSIVE updateSplitRatioAtPath(_, _, _)
\* path is a string over "L" and "R", a sequence of characters here
updateSplitRatioAtPath(layout, path, ratio) ==
  IF Len(path) = 0
  THEN IF layout.type # "split" THEN layout
       ELSE [layout EXCEPT !.ratio = clampRatio(ratio)]
  ELSE IF layout.type # "split" THEN layout
  ELSE IF Head(path) = "L"
       THEN [layout EXCEPT !.first = updateSplitRatioAtPath(layout.first, Tail(path), ratio)]
  ELSE IF Head(path) = "R"
       THEN [layout EXCEPT !.second = updateSplitRatioAtPath(layout.second, Tail(path), ratio)]
  ELSE layout

RECURSIVE preserveSplitRatios(_, _)
preserveSplitRatios(previous, next) ==
  IF previous.type # "split" \/ next.type # "split" THEN next
  ELSE IF previous.direction # next.direction THEN next
  ELSE [next EXCEPT !.ratio = clampRatio(previous.ratio),
                    !.first = preserveSplitRatios(previous.first, next.first),
                    !.second = preserveSplitRatios(previous.second, next.second)]

(***************************************************************************)
(* Partial maps (JavaScript objects and Maps) are functions; EmptyMap is   *)
(* the map without keys.                                                   *)
(***************************************************************************)
EmptyMap == [x \in {} |-> 0]
MapPut(f, k, v) == [x \in DOMAIN f \cup {k} |-> IF x = k THEN v ELSE f[x]]
MapDel(f, K) == [x \in DOMAIN f \ K |-> f[x]]
Has(f, k) == k \in DOMAIN f

(***************************************************************************)
(* Identifiers.                                                            *)
(***************************************************************************)
CtlIds == {"c1"}
PtyIds == {"s1", "s2"}
TmuxPaneIds == {<<"%", "4">>, <<"%", "5">>}
NoCapture == [id |-> 0, tmuxPaneId |-> << >>, lines |-> << >>, collecting |-> FALSE]

(***************************************************************************)
(* Control lines used to drive the capture transaction machine.            *)
(***************************************************************************)
L_begin == S_begin \o <<" ", "1">>
L_end == S_end \o <<" ", "1">>
L_error == S_error \o <<" ", "1">>
L_dataA == <<"d", "a", "t", "a", "A">>
L_dataB == <<"d", "a", "t", "a", "B">>
L_empty == << >>
L_exit == <<"%", "e", "x", "i", "t">>
CaptureLines == {L_begin, L_end, L_error, L_dataA, L_dataB, L_empty, L_exit}


(***************************************************************************)
(* The tmux windows, panes and layout strings of the modelled sessions:    *)
(* window @1 holds pane %0, later split into %0 and %1; window @2 is       *)
(* announced by %window-add.                                               *)
(***************************************************************************)
Win1 == <<"@", "1">>
Win2 == <<"@", "2">>
Lay_w1a ==
  <<"b", "1", "c", "2", ",", "8", "0", "x", "2", "4", ",", "0", ",", "0",
    ",", "0">>
Lay_w1b ==
  <<"d", "3", "e", "4", ",", "8", "0", "x", "2", "4", ",", "0", ",", "0",
    "{", "4", "0", "x", "2", "4", ",", "0", ",", "0", ",", "0", ",", "3",
    "9", "x", "2", "4", ",", "4", "1", ",", "0", ",", "1", "}">>
\* A window whose left pane takes 5 of 99 columns.
Lay_narrow ==
  <<"f", "5", "a", "6", ",", "1", "0", "0", "x", "2", "4", ",", "0", ",",
    "0", "{", "5", "x", "2", "4", ",", "0", ",", "0", ",", "2", ",", "9",
    "4", "x", "2", "4", ",", "6", ",", "0", ",", "3", "}">>
\* Window @1 with the divider between %0 and %1 moved to column 30.
Lay_w1c ==
  <<"a", "7", "f", "0", ",", "8", "0", "x", "2", "4", ",", "0", ",", "0",
    "{", "3", "0", "x", "2", "4", ",", "0", ",", "0", ",", "0", ",", "4",
    "9", "x", "2", "4", ",", "3", "1", ",", "0", ",", "1", "}">>
\* Window @2 with its pane %2.
Lay_w2 ==
  <<"b", "1", "d", "4", ",", "8", "0", "x", "2", "4", ",", "0", ",", "0",
    ",", "2">>
\* Window @2 holding pane %1 alone.
Lay_w2moved ==
  <<"b", "1", "c", "3", ",", "8", "0", "x", "2", "4", ",", "0", ",", "0",
    ",", "1">>
KnownLayouts ==
  {Lay_w1a, Lay_w1b, Lay_w1c, Lay_w2, Lay_w2moved, Lay_narrow, S_syntheticLayout}

LayoutTable == [l \in KnownLayouts |-> LayoutParser_parse(l)]

\* new LayoutParser(layout).parse(), looked up for the layouts above
ParsedLayout(layout) ==
  IF layout \in KnownLayouts THEN LayoutTable[layout] ELSE LayoutParser_parse(layout)

WL_boot1 == S_windowMarker \o Win1 \o S_sep \o <<"w">> \o S_sep \o Lay_w1a
WL_add2 == S_windowAdd \o <<" ">> \o Win2
WL_layout1 == S_layoutChange \o <<" ">> \o Win1 \o <<" ">> \o Lay_w1b
WL_boot1b == S_windowMarker \o Win1 \o S_sep \o <<"w">> \o S_sep \o Lay_w1b
WL_layout1c == S_layoutChange \o <<" ">> \o Win1 \o <<" ">> \o Lay_w1c
WL_layout1a == S_layoutChange \o <<" ">> \o Win1 \o <<" ">> \o Lay_w1a
\* Window @2 laid out, and pane %0 made the active pane of window @1.
WL_layout2 == S_layoutChange \o <<" ">> \o Win2 \o <<" ">> \o Lay_w2
WL_layout2moved == S_layoutChange \o <<" ">> \o Win2 \o <<" ">> \o Lay_w2moved
WL_paneChanged0 == S_windowPaneChanged \o <<" ">> \o Win1 \o <<" ", "%", "0">>
\* Layout strings the parser rejects: empty, cut off inside the children,
\* without a pane id, with no children, and not a layout at all.
Lay_empty == << >>
Lay_truncated == SubSeq(Lay_w1b, 1, 30)
Lay_noPane == SubSeq(Lay_w1a, 1, 14)
Lay_noChildren == SubSeq(Lay_w1b, 1, 15) \o <<"}">>
Lay_garbage == <<"z", "z">>
MalformedLayouts == {Lay_empty, Lay_truncated, Lay_noPane, Lay_noChildren, Lay_garbage}
\* The list-windows line and the %layout-change line of window @1 with them;
\* the regular expression of %layout-change wants a layout of one character
\* at least.
MalformedLines ==
  {S_windowMarker \o Win1 \o S_sep \o <<"w">> \o S_sep \o l : l \in MalformedLayouts}
    \cup {S_layoutChange \o <<" ">> \o Win1 \o <<" ">> \o l :
             l \in MalformedLayouts \ {Lay_empty}}
WL_close1 == S_windowClose \o <<" ">> \o Win1
WL_paneChanged == S_windowPaneChanged \o <<" ">> \o Win1 \o <<" ", "%", "1">>
WorkspaceLines ==
  {WL_boot1, WL_add2, WL_layout1, WL_close1, WL_paneChanged}

\* Lines of the attach sequence and %output lines for pane %0 of window @1.
BL_socket == S_socketMarker \o <<"/", "s">>
BL_pane == S_paneMarker \o Win1 \o S_sep \o S_pane0
OL_a == S_output \o <<" ">> \o S_pane0 \o <<" ", "a">>
OL_b == S_output \o <<" ">> \o S_pane0 \o <<" ", "b", "ESC", "[", "3", "J">>
OL_big == S_output \o <<" ">> \o S_pane0 \o <<" ", Block>>
OutputLines == {OL_a, OL_b, OL_big}
OL_y == S_output \o <<" ">> \o S_pane0 \o <<" ", ChunkY>>
OL_z == S_output \o <<" ">> \o S_pane0 \o <<" ", ChunkZ>>
\* The window's line and %output lines of 1, 300000 and 524288 characters.
BufferLines == {WL_boot1, OL_a, OL_y, OL_z, OL_big}
BootLines == {BL_socket, BL_pane, WL_boot1} \cup OutputLines

\* The parsers applied to a line, looked up for the lines above.
KnownLines ==
  CaptureLines \cup WorkspaceLines \cup BootLines \cup {WL_boot1b, WL_layout1c}
    \cup BufferLines \cup {WL_layout1a, WL_layout2, WL_layout2moved, WL_paneChanged0}
    \cup MalformedLines

SniffLine(line) ==
  [socket |-> parseSocketPathLine(line),
   pane |-> parseBootstrapPaneLine(line),
   window |-> parseBootstrapWindowLine(line),
   event |-> parseTmuxControlLine(line),
   dataSocket |-> parseSocketPathLine(parseTmuxControlLine(line).data),
   sanitized |-> sanitizeTmuxOutput(parseTmuxControlLine(line).data)]

LineTable == [l \in KnownLines |-> SniffLine(l)]

ParsedLine(line) == LineTable[line]

\* What captureTmuxPane can resolve with.
CapturedTexts == {<< >>, <<"h", "\n">>}

NoResolve == [id |-> 0, text |-> << >>, via |-> "none", began |-> FALSE,
              arrived |-> << >>]

VARIABLES
  controllersRef,        \* controlPtyId -> TRUE when a controller is registered
  ctlPhase,              \* controlPtyId -> "none" | "live" | "exited" (the PTY itself)
  tmuxCaptureQueuesRef,  \* controlPtyId -> queue of PendingTmuxCapture
  tmuxCaptureActiveRef,  \* controlPtyId -> PendingTmuxCapture or NoCapture
  captureTimers,         \* pending 5 s timers, as {<<controlPtyId, request id>>}
  ptyWrites,             \* controlPtyId -> commands written with writePty
  captureSeq,            \* number of capture requests enqueued so far
  captureEnqueued,       \* history: controlPtyId -> request ids in enqueue order
  captureResolved,       \* history: controlPtyId -> ids whose resolve() ran, in order
  lastResolved,          \* history: the most recent resolve() call
  captureSeen,           \* history: controlPtyId -> non-% lines since the %begin
  \* ---- main process (electron/main.ts) and PTY helper (pty-helper.cjs) ----
  ptySessions,           \* session id -> TRUE while registered in ptySessions
  ptyBackend,            \* session id -> "none" | "pty" | "helper" | "pipe"
  ptyChild,              \* session id -> state of the child behind the session
  ptyDataSent,           \* session id -> number of output chunks the child produced
  pipeStreams,           \* session id -> TRUE while the pipe child's stdio is open
  helperProcess,         \* TRUE once the helper process has been spawned
  helperStdin,           \* messages written to the helper, not yet handled by it
  helperStdout,          \* messages written by the helper, not yet handled by main
  helperSessions,        \* the helper's own sessions map (set of session ids)
  ptyEvents,             \* history: session id -> events sent to the renderer
  ipcReturned,           \* history: what the last pty:write / tmux:start-control call returned
  \* ---- line framing of the control stream (App.tsx onPtyData) ----
  tmuxLineBuffersRef,    \* controlPtyId -> the unterminated tail of the data so far
  streamFed,             \* history: controlPtyId -> all data delivered so far
  linesFramed,           \* history: controlPtyId -> lines passed to handleTmuxControlLine
  \* ---- renderer workspace (App.tsx) ----
  tabs,                  \* React state: sequence of TabState
  activeTabId,           \* React state: tab id, 0 for null
  tabsRef,               \* tabsRef.current, refreshed by an effect after render
  activeTabIdRef,        \* activeTabIdRef.current, refreshed by an effect
  pendingTabs,           \* setTabs calls not yet rendered, in call order
  pendingActive,         \* setActiveTabId calls not yet rendered, in call order
  windowToTab,           \* controlPtyId -> (tmux window id -> tab id)
  paneToNative,          \* controlPtyId -> (tmux pane id -> [tabId, paneId])
  localPtyToPaneRef,     \* local pty id -> [tabId, paneId]
  tmuxPaneBootstrapRef,  \* pane id -> [chunks, totalBytes]
  bootstrapTimers,       \* pane ids whose 15 s flush timer is pending
  tmuxHydrateStartedRef, \* pane ids whose hydration has started
  paneHistoryRef,        \* pane id -> [chunks, totalBytes] written with writeToPane
  layoutTimers,          \* pending setTimeout(0) of applyTmuxLayout: {<<c, tabId>>}
  localTabTasks,         \* createLocalTab calls awaiting createPty
  splitTasks,            \* splitActivePane calls awaiting createPty
  uidTab,                \* tab ids handed out by uid("tab")
  uidPane,               \* pane ids handed out by uid("pane")
  uidPty,                \* local pty ids handed out by createPty
  linesHandled,          \* control lines that had an effect, and PTY exits
  menuActions,           \* menu actions, keystrokes and resizes handled that had an effect
  socketPath,            \* controlPtyId -> TRUE once controller.socketPath is set
  tmuxPrefetchedHistoryRef, \* controlPtyId -> (tmux pane id -> prefetched history)
  tmuxPrefetchInFlightRef,  \* controlPtyId -> tmux pane ids being prefetched
  prefetchTasks,         \* prefetches waiting for a retry timer or for captureTmuxPane
  hydrateTasks,          \* hydrations waiting for a retry timer or for captureTmuxPane
  writerLog,             \* history: pane id -> every writeToPane call, in order
  flushLog,              \* history: pane id -> what each flushTmuxBootstrapPane delivered
  outputArrived,         \* history: payloads of the %output lines routed to a pane
  ptyKills,              \* history: the pty ids killPty was called with, in order
  paneGridSizeRef,       \* pane id -> [cols, rows] last reported by the pane's terminal
  tmuxPaneSizeRef,       \* pane id -> [cols, rows] last sent with resize-pane
  tmuxClientSizeRef,     \* controlPtyId -> [cols, rows] last sent with refresh-client
  ptyResizes,            \* controlPtyId -> the sizes resizePty was called with, in order
  shellSessions,         \* main: local pty id -> data written to its shell, while registered
  shellTmuxProbeRef,     \* local pty id -> the pending tmux probe [token, collecting, lines, buffer]
  probeTimers,           \* the pending 2.2 s probe timers, [token, ptyId]
  probeResolved,         \* history: the results the probe promises resolved with, in order
  probeSeq,              \* probe tokens handed out by uid("probe")
  tmuxReplies,           \* tmux: controlPtyId -> [closed, open], the response blocks it has written
  tabsExpected,          \* history: ids of the tabs created and not closed
  reportedIn             \* history: controlPtyId -> (tmux pane id -> window that lists it)

captureVars ==
  <<tmuxCaptureQueuesRef, tmuxCaptureActiveRef, captureTimers, ptyWrites,
    captureSeq, captureEnqueued, captureResolved, lastResolved, captureSeen>>

ptyVars ==
  <<ptySessions, ptyBackend, ptyChild, ptyDataSent, pipeStreams, helperProcess,
    helperStdin, helperStdout, helperSessions, ptyEvents, ipcReturned>>

reactVars == <<tabs, activeTabId, tabsRef, activeTabIdRef, pendingTabs, pendingActive>>

bindingVars == <<windowToTab, paneToNative, localPtyToPaneRef>>

artifactVars ==
  <<tmuxPaneBootstrapRef, bootstrapTimers, tmuxHydrateStartedRef, paneHistoryRef,
    writerLog, flushLog, paneGridSizeRef, tmuxPaneSizeRef>>

sizeVars == <<tmuxClientSizeRef, ptyResizes>>

probeVars == <<shellTmuxProbeRef, probeTimers, probeResolved, probeSeq>>

bootVars ==
  <<socketPath, tmuxPrefetchedHistoryRef, tmuxPrefetchInFlightRef, prefetchTasks,
    hydrateTasks>>

taskVars == <<layoutTimers, localTabTasks, splitTasks>>

counterVars == <<uidTab, uidPane, uidPty, linesHandled, menuActions>>

historyVars == <<tabsExpected, reportedIn, outputArrived, ptyKills>>

wsVars ==
  <<reactVars, bindingVars, artifactVars, bootVars, taskVars, counterVars,
    historyVars>>

framingVars == <<tmuxLineBuffersRef, streamFed, linesFramed>>

vars ==
  <<controllersRef, ctlPhase, captureVars, ptyVars, wsVars, framingVars, shellSessions,
    sizeVars, probeVars, tmuxReplies>>


(***************************************************************************)
(* In-band capture transactions (App.tsx, runNextTmuxCapture and           *)
(* captureTmuxPaneInBand).  A capture state is the record                  *)
(* [q, a, t, w] of the queues, the active slots, the pending timers and    *)
(* the PTY write log.                                                      *)
(***************************************************************************)
CaptureState == [q |-> tmuxCaptureQueuesRef, a |-> tmuxCaptureActiveRef,
                 t |-> captureTimers, w |-> ptyWrites]

CaptureCommand(req) ==
  [data |-> S_capturePane \o req.tmuxPaneId \o S_nl, req |-> req.id]

\* Mutant: the next request is taken from the tail of the queue (pop).
runNextTmuxCapture_Lifo(c, S) ==
  IF S.a[c] # NoCapture THEN S
  ELSE IF Len(S.q[c]) = 0 THEN S
  ELSE LET next == S.q[c][Len(S.q[c])] IN
       [q |-> [S.q EXCEPT ![c] = SubSeq(@, 1, Len(@) - 1)],
        a |-> [S.a EXCEPT ![c] = next],
        t |-> S.t \cup {<<c, next.id>>},
        w |-> [S.w EXCEPT ![c] = Append(@, CaptureCommand(next))]]

\* Mutant: the early return on an occupied active slot is missing.
runNextTmuxCapture_NoGuard(c, S) ==
  IF Len(S.q[c]) = 0 THEN S
  ELSE LET next == Head(S.q[c]) IN
       [q |-> [S.q EXCEPT ![c] = Tail(@)],
        a |-> [S.a EXCEPT ![c] = next],
        t |-> S.t \cup {<<c, next.id>>},
        w |-> [S.w EXCEPT ![c] = Append(@, CaptureCommand(next))]]

runNextTmuxCapture(c, S) ==
  IF S.a[c] # NoCapture THEN S
  ELSE IF Len(S.q[c]) = 0 THEN S
  ELSE LET next == Head(S.q[c]) IN
       [q |-> [S.q EXCEPT ![c] = Tail(@)],
        a |-> [S.a EXCEPT ![c] = next],
        t |-> S.t \cup {<<c, next.id>>},
        w |-> [S.w EXCEPT ![c] = Append(@, CaptureCommand(next))]]

InstallCaptureState(S) ==
  /\ tmuxCaptureQueuesRef' = S.q
  /\ tmuxCaptureActiveRef' = S.a
  /\ captureTimers' = S.t
  /\ ptyWrites' = S.w

\* captureTmuxPaneInBand(controlPtyId, tmuxPaneId)
captureTmuxPaneInBand(c, p) ==
  /\ controllersRef[c]
  /\ captureSeq < MaxCaptures
  /\ LET req == [id |-> captureSeq + 1, tmuxPaneId |-> p,
                 lines |-> << >>, collecting |-> FALSE]
         pushed == [CaptureState EXCEPT !.q[c] = Append(@, req)]
     IN  InstallCaptureState(runNextTmuxCapture(c, pushed))
  /\ captureSeq' = captureSeq + 1
  /\ captureEnqueued' = [captureEnqueued EXCEPT ![c] = Append(@, captureSeq + 1)]
  /\ UNCHANGED <<controllersRef, ctlPhase, captureResolved, lastResolved, captureSeen>>
  /\ UNCHANGED <<ptyVars, framingVars, shellSessions, sizeVars, probeVars, tmuxReplies, wsVars>>

\* Mutant: the timer resolves the request and starts no other.
CaptureTimeout_NoNext(c, id) ==
  /\ <<c, id>> \in captureTimers
  /\ LET fired == [CaptureState EXCEPT !.t = @ \ {<<c, id>>}] IN
     IF tmuxCaptureActiveRef[c] = NoCapture \/ tmuxCaptureActiveRef[c].id # id
     THEN /\ InstallCaptureState(fired)
          /\ UNCHANGED <<captureResolved, lastResolved, captureSeen>>
     ELSE /\ InstallCaptureState([fired EXCEPT !.a[c] = NoCapture])
          /\ captureResolved' = [captureResolved EXCEPT ![c] = Append(@, id)]
          /\ lastResolved' = [id |-> id, text |-> << >>, via |-> "timeout",
                              began |-> tmuxCaptureActiveRef[c].collecting,
                              arrived |-> captureSeen[c]]
          /\ captureSeen' = [captureSeen EXCEPT ![c] = << >>]
  /\ UNCHANGED <<controllersRef, ctlPhase, captureSeq, captureEnqueued>>
  /\ UNCHANGED <<ptyVars, framingVars, shellSessions, sizeVars, probeVars, tmuxReplies, wsVars>>

\* The 5 s timer set by runNextTmuxCapture fires.
CaptureTimeout(c, id) ==
  /\ <<c, id>> \in captureTimers
  /\ LET fired == [CaptureState EXCEPT !.t = @ \ {<<c, id>>}] IN
     IF tmuxCaptureActiveRef[c] = NoCapture \/ tmuxCaptureActiveRef[c].id # id
     THEN /\ InstallCaptureState(fired)
          /\ UNCHANGED <<captureResolved, lastResolved, captureSeen>>
     ELSE /\ InstallCaptureState(
               runNextTmuxCapture(c, [fired EXCEPT !.a[c] = NoCapture]))
          /\ captureResolved' = [captureResolved EXCEPT ![c] = Append(@, id)]
          /\ lastResolved' = [id |-> id, text |-> << >>, via |-> "timeout",
                              began |-> tmuxCaptureActiveRef[c].collecting,
                              arrived |-> captureSeen[c]]
          /\ captureSeen' = [captureSeen EXCEPT ![c] = << >>]
  /\ UNCHANGED <<controllersRef, ctlPhase, captureSeq, captureEnqueued>>
  /\ UNCHANGED <<ptyVars, framingVars, shellSessions, sizeVars, probeVars, tmuxReplies, wsVars>>



(***************************************************************************)
(* Workspace records.  Tab, pane and local pty ids are the numbers handed  *)
(* out by uid() and createPty; 0, "" and << >> stand for absent values.    *)
(***************************************************************************)
S_shell == <<"S", "h", "e", "l", "l">>
S_tmuxSpace == <<"t", "m", "u", "x", " ">>

NoTab == [id |-> 0, title |-> << >>, layout |-> NullNode, panes |-> EmptyMap,
          activePaneId |-> 0, tmuxWindowId |-> << >>, controlPtyId |-> ""]

LocalPane(id, ptyId, backend) ==
  [id |-> id, type |-> "local", backend |-> backend, ptyId |-> ptyId,
   tmuxPaneId |-> << >>, controlPtyId |-> ""]

TmuxPane(id, tmuxPaneId, c) ==
  [id |-> id, type |-> "tmux", backend |-> "", ptyId |-> 0, tmuxPaneId |-> tmuxPaneId,
   controlPtyId |-> c]

\* A queued setTabs call: k names the updater (or "value" for a plain value).
Upd(k) == [k |-> k, tabId |-> 0, paneId |-> 0, ptyId |-> 0, backend |-> "",
           direction |-> "",
           c |-> "", windowId |-> << >>, layout |-> << >>, name |-> << >>,
           hasName |-> FALSE, tab |-> NoTab, tabs |-> << >>,
           path |-> << >>, ratio |-> Half]

\* A queued setActiveTabId call: "set" is a plain value, "ifcur" the updater
\* (current) => current === tabId ? v : current.
ActUpd(k, tabId, v) == [k |-> k, tabId |-> tabId, v |-> v]

TabIndex(ts, id) ==
  LET I == {i \in DOMAIN ts : ts[i].id = id} IN
  IF I = {} THEN 0 ELSE CHOOSE i \in I : \A j \in I : i <= j

TabIds(ts) == {ts[i].id : i \in DOMAIN ts}

Range(f) == {f[x] : x \in DOMAIN f}

(***************************************************************************)
(* Per-pane artifacts (cleanupPaneArtifacts).  An artifact state is the    *)
(* record [boot, timers, hyd, hist, wlog, flog] of the bootstrap buffers,  *)
(* the pending flush timers, the hydration marks, the pane histories and   *)
(* the two logs kept for the properties.  A pane writer receives what      *)
(* writeToPane is called with, either at once or replayed in order from    *)
(* the history by registerWriter, so wlog is the writer's input.  Measured *)
(* grid sizes and tmux pane sizes belong to the terminal views and are not *)
(* part of the model.                                                      *)
(***************************************************************************)
Artifacts == [boot |-> tmuxPaneBootstrapRef, timers |-> bootstrapTimers,
              hyd |-> tmuxHydrateStartedRef, hist |-> paneHistoryRef,
              wlog |-> writerLog, flog |-> flushLog,
              grid |-> paneGridSizeRef, psize |-> tmuxPaneSizeRef]

\* cleanupPaneArtifacts for every pane id of the set P
cleanupPaneArtifacts(A, P) ==
  [boot |-> MapDel(A.boot, P),
   timers |-> A.timers \ {q \in P : Has(A.boot, q)},
   hyd |-> A.hyd \ P,
   hist |-> MapDel(A.hist, P),
   wlog |-> A.wlog,
   flog |-> A.flog,
   grid |-> MapDel(A.grid, P),
   psize |-> MapDel(A.psize, P)]

InstallArtifacts(next) ==
  \E A \in {next} :
    /\ tmuxPaneBootstrapRef' = A.boot
    /\ bootstrapTimers' = A.timers
    /\ tmuxHydrateStartedRef' = A.hyd
    /\ paneHistoryRef' = A.hist
    /\ writerLog' = A.wlog
    /\ flushLog' = A.flog
    /\ paneGridSizeRef' = A.grid
    /\ tmuxPaneSizeRef' = A.psize

(***************************************************************************)
(* Byte counts.  "x*524288" stands for a run of 524288 letters x, so that  *)
(* a payload can be as long as the bootstrap buffer limit.                 *)
(***************************************************************************)
MAX_PANE_HISTORY_BYTES == 2 * 1024 * 1024
MAX_TMUX_BOOTSTRAP_BUFFER_BYTES == 512 * 1024
BlockBytes == MAX_TMUX_BOOTSTRAP_BUFFER_BYTES
\* The length of a chunk longer than half the limit.
ChunkBytes == 300 * 1000

\* String.prototype.length
RECURSIVE StrLen(_)
StrLen(str) ==
  IF Len(str) = 0 THEN 0
  ELSE (IF Head(str) = Block THEN BlockBytes
        ELSE IF Head(str) \in {ChunkY, ChunkZ} THEN ChunkBytes
        ELSE 1) + StrLen(Tail(str))

LogAppend(log, paneId, entry) ==
  MapPut(log, paneId, IF Has(log, paneId) THEN Append(log[paneId], entry) ELSE <<entry>>)

\* writeToPane: the while loop that trims the history
RECURSIVE trimHistory(_)
trimHistory(h) ==
  IF h.totalBytes > MAX_PANE_HISTORY_BYTES /\ Len(h.chunks) > 1 /\ Len(Head(h.chunks)) > 0
  THEN trimHistory([chunks |-> Tail(h.chunks),
                    totalBytes |-> h.totalBytes - StrLen(Head(h.chunks))])
  ELSE h

\* writeToPane(paneId, data); `via` says which call site wrote, for the log.
writeToPane(A, paneId, data, via) ==
  LET existingHistory == IF Has(A.hist, paneId) THEN A.hist[paneId]
                         ELSE [chunks |-> << >>, totalBytes |-> 0]
      pushed == [chunks |-> Append(existingHistory.chunks, data),
                 totalBytes |-> existingHistory.totalBytes + StrLen(data)]
  IN  [A EXCEPT !.hist = MapPut(@, paneId, trimHistory(pushed)),
                !.wlog = LogAppend(@, paneId, [data |-> data, via |-> via])]

\* Mutant: the buffered chunks are written last one first.
RECURSIVE writeChunks_Reversed(_, _, _)
writeChunks_Reversed(A, paneId, chunks) ==
  IF Len(chunks) = 0 THEN A
  ELSE writeChunks_Reversed(writeToPane(A, paneId, chunks[Len(chunks)], "flush"),
                            paneId, SubSeq(chunks, 1, Len(chunks) - 1))

\* flushTmuxBootstrapPane: for (const chunk of bootstrap.chunks) writeToPane(...)
RECURSIVE writeChunks(_, _, _)
writeChunks(A, paneId, chunks) ==
  IF Len(chunks) = 0 THEN A
  ELSE writeChunks(writeToPane(A, paneId, Head(chunks), "flush"), paneId, Tail(chunks))

\* flushTmuxBootstrapPane(paneId, capturedHistory); << >> is an absent or
\* empty capturedHistory.
flushTmuxBootstrapPane(A, paneId, capturedHistory) ==
  IF ~Has(A.boot, paneId)
  THEN IF Len(capturedHistory) > 0
       THEN [writeToPane(A, paneId, capturedHistory, "history") EXCEPT
               !.flog = LogAppend(@, paneId, [delivered |-> "history", chunks |-> 0,
                                              hadBootstrap |-> FALSE])]
       ELSE A
  ELSE LET bootstrap == A.boot[paneId]
           A1 == [A EXCEPT !.boot = MapDel(@, {paneId}),
                           !.hyd = @ \ {paneId},
                           !.timers = @ \ {paneId}]
       IN  IF Len(capturedHistory) > 0
           THEN [writeToPane(A1, paneId, capturedHistory, "history") EXCEPT
                   !.flog = LogAppend(@, paneId, [delivered |-> "history", chunks |-> 0,
                                                  hadBootstrap |-> TRUE])]
           ELSE [writeChunks(A1, paneId, bootstrap.chunks) EXCEPT
                   !.flog = LogAppend(@, paneId, [delivered |-> "chunks",
                                                  chunks |-> Len(bootstrap.chunks),
                                                  hadBootstrap |-> TRUE])]


(***************************************************************************)
(* Rendering.  setTabs and setActiveTabId queue; React applies the queued   *)
(* calls in order when it renders.  An updater function passed to setTabs  *)
(* runs then (or at the call, see setTabs below), and applyTmuxLayout's    *)
(* updater has side effects (mapPane), so a render works on the record     *)
(* [tabs, p2n, art, uidPane, act, tasks]: the tab list, paneToNative, the  *)
(* pane artifacts, the pane uid counter, the setActiveTabId queue and the  *)
(* number of running createLocalTab calls.                                 *)
(***************************************************************************)
RenderState == [tabs |-> tabs, p2n |-> paneToNative, art |-> Artifacts,
                uidPane |-> uidPane, act |-> pendingActive,
                tasks |-> localTabTasks]

NewBootstrap == [chunks |-> << >>, totalBytes |-> 0]

\* applyTmuxLayout.mapPane: [paneId, R]
mapPane(R, c, tabId, tmuxPaneId) ==
  IF Has(R.p2n[c], tmuxPaneId) /\ R.p2n[c][tmuxPaneId].tabId = tabId
  THEN [paneId |-> R.p2n[c][tmuxPaneId].paneId, R |-> R]
  ELSE LET paneId == R.uidPane + 1 IN
       [paneId |-> paneId,
        R |-> [R EXCEPT
                 !.uidPane = paneId,
                 !.p2n[c] = MapPut(@, tmuxPaneId, [tabId |-> tabId, paneId |-> paneId]),
                 !.art.timers = @ \cup {paneId},
                 !.art.boot = MapPut(@, paneId, NewBootstrap)]]

\* lib/tmux.ts mapNode with mapPane as the callback: [layout, R, live], live
\* being the tmux pane ids in the order mapPane saw them.
RECURSIVE mapNode(_, _, _, _)
mapNode(node, R, c, tabId) ==
  IF node.type = "pane"
  THEN LET m == mapPane(R, c, tabId, node.tmuxPaneId) IN
       [layout |-> singlePaneLayout(m.paneId), R |-> m.R,
        live |-> <<node.tmuxPaneId>>]
  ELSE LET f == mapNode(node.first, R, c, tabId)
           g == mapNode(node.second, f.R, c, tabId)
       IN  [layout |-> [type |-> "split", direction |-> node.direction,
                        ratio |-> boundRatio(node.ratio),
                        first |-> f.layout, second |-> g.layout],
            R |-> g.R, live |-> f.live \o g.live]

\* Mutant: no catch branch, a layout that does not parse maps nothing.
parseTmuxLayout_NoCatch(layout, R, c, tabId) ==
  LET parsed == ParsedLayout(layout) IN
  IF parsed.ok THEN mapNode(parsed.node, R, c, tabId)
  ELSE [layout |-> NullNode, R |-> R, live |-> << >>]

\* parseTmuxLayout(layout, mapPane) with the catch branch of applyTmuxLayout
parseTmuxLayout(layout, R, c, tabId) ==
  LET parsed == ParsedLayout(layout) IN
  IF parsed.ok THEN mapNode(parsed.node, R, c, tabId)
  ELSE LET m == mapPane(R, c, tabId, S_pane0) IN
       [layout |-> singlePaneLayout(m.paneId), R |-> m.R, live |-> <<S_pane0>>]

\* The updater passed to setTabs by applyTmuxLayout, from nextPanes on:
\* `mapped` is what parseTmuxLayout returned, with the state mapPane left.
layoutUpdaterMapped(u, R, mapped) ==
  LET existingIndex == TabIndex(R.tabs, u.tabId)
      existingTab == IF existingIndex > 0 THEN R.tabs[existingIndex] ELSE NoTab
      livePaneIds == {mapped.live[i] : i \in DOMAIN mapped.live}
      binding == mapped.R.p2n[u.c]
      mine == {tp \in livePaneIds : Has(binding, tp) /\ binding[tp].tabId = u.tabId}
      nextPanes == [pid \in {binding[tp].paneId : tp \in mine} |->
                      TmuxPane(pid, CHOOSE tp \in mine : binding[tp].paneId = pid, u.c)]
      stale == {tp \in DOMAIN binding :
                  binding[tp].tabId = u.tabId /\ tp \notin livePaneIds}
      art2 == cleanupPaneArtifacts(mapped.R.art, {binding[tp].paneId : tp \in stale})
      firstKey == binding[CHOOSE tp \in mine :
                    \E i \in DOMAIN mapped.live :
                      /\ mapped.live[i] = tp
                      /\ \A j \in 1..(i - 1) : mapped.live[j] \notin mine].paneId
      nextActivePaneId ==
        IF existingIndex > 0 /\ Has(nextPanes, existingTab.activePaneId)
        THEN existingTab.activePaneId
        ELSE IF mine = {} THEN 0 ELSE firstKey
      mergedLayout == IF existingIndex > 0
                      THEN preserveSplitRatios(existingTab.layout, mapped.layout)
                      ELSE mapped.layout
      nextTab == [id |-> u.tabId,
                  title |-> IF u.hasName THEN u.name
                            ELSE IF existingIndex > 0 THEN existingTab.title
                            ELSE S_tmuxSpace \o u.windowId,
                  layout |-> mergedLayout,
                  panes |-> nextPanes,
                  activePaneId |-> nextActivePaneId,
                  tmuxWindowId |-> u.windowId,
                  controlPtyId |-> u.c]
      R2 == [mapped.R EXCEPT !.p2n[u.c] = MapDel(binding, stale), !.art = art2]
  IN  IF nextActivePaneId = 0 THEN R2
      ELSE IF existingIndex > 0
           THEN [R2 EXCEPT !.tabs[existingIndex] = nextTab]
           ELSE [R2 EXCEPT !.tabs = Append(@, nextTab)]

\* The updater passed to setTabs by applyTmuxLayout.
applyTmuxLayoutUpdater(u, R) ==
  layoutUpdaterMapped(u, R, parseTmuxLayout(u.layout, R, u.c, u.tabId))

\* The updater passed to setTabs by splitActivePane, for the tab it targets.
splitUpdater(u, tab) ==
  [tab EXCEPT
     !.panes = MapPut(@, u.paneId, LocalPane(u.paneId, u.ptyId, u.backend)),
     !.layout = splitLayoutAtPane(tab.layout, tab.activePaneId, u.direction, u.paneId),
     !.activePaneId = u.paneId]

\* The updater passed to setTabs by closeActivePane, for the tab it targets.
closePaneUpdater(tab) ==
  LET nextLayout == removePaneFromLayout(tab.layout, tab.activePaneId) IN
  IF nextLayout = NullNode THEN tab
  ELSE [tab EXCEPT !.panes = MapDel(@, {tab.activePaneId}),
                   !.layout = nextLayout,
                   !.activePaneId = collectPaneIds(nextLayout)[1]]

\* The updater passed to setTabs by onPtyExit for a tmux-control PTY.
exitUpdater(u, R) ==
  LET remaining == SelectSeq(R.tabs, LAMBDA t : t.controlPtyId # u.c) IN
  IF Len(remaining) = 0
  THEN [R EXCEPT !.tabs = remaining,
                 !.act = Append(@, ActUpd("set", 0, 0)),
                 !.tasks = @ + 1]
  ELSE IF activeTabIdRef # 0 /\ activeTabIdRef \notin TabIds(remaining)
       THEN [R EXCEPT !.tabs = remaining,
                      !.act = Append(@, ActUpd("set", 0, remaining[1].id))]
  ELSE [R EXCEPT !.tabs = remaining]

MapTab(ts, id, F(_)) ==
  [i \in DOMAIN ts |-> IF ts[i].id = id THEN F(ts[i]) ELSE ts[i]]

ApplyUpdate(u, R) ==
  CASE u.k = "append" -> [R EXCEPT !.tabs = Append(@, u.tab)]
    [] u.k = "remove" -> [R EXCEPT !.tabs = SelectSeq(@, LAMBDA t : t.id # u.tabId)]
    [] u.k = "split" -> [R EXCEPT !.tabs = MapTab(@, u.tabId, LAMBDA t : splitUpdater(u, t))]
    [] u.k = "closePane" -> [R EXCEPT !.tabs = MapTab(@, u.tabId, closePaneUpdater)]
    [] u.k = "activePane" ->
         [R EXCEPT !.tabs = MapTab(@, u.tabId, LAMBDA t : [t EXCEPT !.activePaneId = u.paneId])]
    [] u.k = "title" ->
         [R EXCEPT !.tabs = MapTab(@, u.tabId, LAMBDA t : [t EXCEPT !.title = u.name])]
    [] u.k = "layout" -> applyTmuxLayoutUpdater(u, R)
    [] u.k = "ratio" ->
         [R EXCEPT !.tabs = MapTab(@, u.tabId, LAMBDA t :
            [t EXCEPT !.layout = updateSplitRatioAtPath(t.layout, u.path, u.ratio)])]
    [] u.k = "value" -> [R EXCEPT !.tabs = u.tabs]
    [] u.k = "exit" -> exitUpdater(u, R)

\* The queued updaters run in call order, each on the state the one before
\* it returned (bound to `next`, so that it is computed once).
RECURSIVE ApplyUpdates(_, _)
ApplyUpdates(queue, R) ==
  IF Len(queue) = 0 THEN R
  ELSE CHOOSE out \in {ApplyUpdates(Tail(queue), next) :
                         next \in {ApplyUpdate(Head(queue), R)}} : TRUE

RECURSIVE ApplyActives(_, _)
ApplyActives(queue, current) ==
  IF Len(queue) = 0 THEN current
  ELSE ApplyActives(Tail(queue),
         IF Head(queue).k = "set" THEN Head(queue).v
         ELSE IF current = Head(queue).tabId THEN Head(queue).v ELSE current)

\* One render of App with its effects: the queued updates are applied, the
\* refs are refreshed (lines 276-282) and a missing active tab is replaced
\* by the first tab (lines 1674-1679).  The controller object of an exited
\* PTY is held only by the updaters applyTmuxLayout queued; once they have
\* run nothing can reach its maps, and they are dropped.
Render ==
  /\ Len(pendingTabs) > 0 \/ Len(pendingActive) > 0
  /\ \E R \in {ApplyUpdates(pendingTabs, RenderState)} :
     \E nextActive \in {ApplyActives(R.act, activeTabId)} :
     /\ tabs' = R.tabs
     /\ tabsRef' = R.tabs
     /\ activeTabId' = nextActive
     /\ activeTabIdRef' = nextActive
     /\ pendingTabs' = << >>
     /\ pendingActive' = IF nextActive = 0 /\ Len(R.tabs) > 0
                         THEN <<ActUpd("set", 0, R.tabs[1].id)>>
                         ELSE << >>
     /\ paneToNative' = [c \in CtlIds |-> IF controllersRef[c] THEN R.p2n[c]
                                          ELSE EmptyMap]
     /\ windowToTab' = [c \in CtlIds |-> IF controllersRef[c] THEN windowToTab[c]
                                         ELSE EmptyMap]
     /\ InstallArtifacts(R.art)
     /\ uidPane' = R.uidPane
     /\ localTabTasks' = R.tasks
  /\ UNCHANGED <<localPtyToPaneRef, layoutTimers, splitTasks,
                 uidTab, uidPty, linesHandled, menuActions, historyVars, bootVars>>
  /\ UNCHANGED <<controllersRef, ctlPhase, captureVars, ptyVars, framingVars, shellSessions, sizeVars, probeVars, tmuxReplies>>

(***************************************************************************)
(* The size of the tmux client: measureLayoutGridSize and                  *)
(* syncTmuxClientSizeForTab.  Sizes are whole numbers, as the terminals    *)
(* report them, so Math.floor leaves them as they are.                     *)
(***************************************************************************)
\* A command written to a control PTY that is not a capture request.
UiCommand(data) == [data |-> data, req |-> 0]

DigitChars == <<"0", "1", "2", "3", "4", "5", "6", "7", "8", "9">>

\* `${n}` for a natural number
RECURSIVE NatToStr(_)
NatToStr(n) ==
  IF n < 10 THEN <<DigitChars[n + 1]>>
  ELSE NatToStr(n \div 10) \o <<DigitChars[(n % 10) + 1]>>

Max(a, b) == IF a >= b THEN a ELSE b

\* null of measureLayoutGridSize
NoSize == [cols |-> 0, rows |-> 0]

PaneGridSize(cols, rows) == [cols |-> cols, rows |-> rows]

RECURSIVE measureLayoutGridSize(_, _)
measureLayoutGridSize(node, paneSizes) ==
  IF node.type = "pane"
  THEN IF Has(paneSizes, node.paneId) THEN paneSizes[node.paneId] ELSE NoSize
  ELSE LET first == measureLayoutGridSize(node.first, paneSizes)
           second == measureLayoutGridSize(node.second, paneSizes)
       IN  IF first = NoSize \/ second = NoSize THEN NoSize
           ELSE IF node.direction = "horizontal"
           THEN PaneGridSize(first.cols + second.cols, Max(first.rows, second.rows))
           ELSE PaneGridSize(Max(first.cols, second.cols), first.rows + second.rows)

S_refreshClient ==
  <<"r", "e", "f", "r", "e", "s", "h", "-", "c", "l", "i", "e", "n", "t", " ", "-", "C", " ">>
S_resizePane ==
  <<"r", "e", "s", "i", "z", "e", "-", "p", "a", "n", "e", " ", "-", "t", " ">>

\* `refresh-client -C ${safeCols}x${safeRows}\n`
RefreshClient(size) ==
  S_refreshClient \o NatToStr(size.cols) \o <<"x">> \o NatToStr(size.rows) \o S_nl

\* `resize-pane -t ${pane.tmuxPaneId} -x ${safeCols} -y ${safeRows}\n`
ResizePane(tmuxPaneId, size) ==
  S_resizePane \o tmuxPaneId \o <<" ", "-", "x", " ">> \o NatToStr(size.cols)
    \o <<" ", "-", "y", " ">> \o NatToStr(size.rows) \o S_nl

\* What a size sync reads and writes, as one record.
SizeState == [grid |-> paneGridSizeRef, psize |-> tmuxPaneSizeRef,
              csz |-> tmuxClientSizeRef, rsz |-> ptyResizes, w |-> ptyWrites]

\* Mutant: the last size sent is not consulted.
syncTmuxClientSizeForTab_Always(Z, tabId) ==
  IF TabIndex(tabsRef, tabId) = 0 THEN Z
  ELSE LET tab == tabsRef[TabIndex(tabsRef, tabId)]
           measured == measureLayoutGridSize(tab.layout, Z.grid)
           safe == PaneGridSize(Max(10, measured.cols), Max(5, measured.rows))
       IN  IF tab.controlPtyId = "" \/ measured = NoSize THEN Z
           ELSE [Z EXCEPT !.csz = MapPut(@, tab.controlPtyId, safe),
                          !.rsz[tab.controlPtyId] = Append(@, safe),
                          !.w[tab.controlPtyId] = Append(@, UiCommand(RefreshClient(safe)))]

syncTmuxClientSizeForTab(Z, tabId) ==
  IF TabIndex(tabsRef, tabId) = 0 THEN Z
  ELSE LET tab == tabsRef[TabIndex(tabsRef, tabId)]
           measured == measureLayoutGridSize(tab.layout, Z.grid)
           safe == PaneGridSize(Max(10, measured.cols), Max(5, measured.rows))
       IN  IF tab.controlPtyId = "" \/ measured = NoSize THEN Z
           ELSE IF Has(Z.csz, tab.controlPtyId) /\ Z.csz[tab.controlPtyId] = safe THEN Z
           ELSE [Z EXCEPT !.csz = MapPut(@, tab.controlPtyId, safe),
                          !.rsz[tab.controlPtyId] = Append(@, safe),
                          !.w[tab.controlPtyId] = Append(@, UiCommand(RefreshClient(safe)))]

\* syncTmuxClientSizeForTab for each tab id of a sequence, in order
RECURSIVE syncEach(_, _)
syncEach(Z, tabIds) ==
  IF Len(tabIds) = 0 THEN Z
  ELSE syncEach(syncTmuxClientSizeForTab(Z, Head(tabIds)), Tail(tabIds))

(***************************************************************************)
(* handleTmuxControlLine: the active transaction is consulted first; a     *)
(* line it does not consume goes on to the sniffers and the event parser.  *)
(***************************************************************************)
\* The refs and queues a tmux-side handler reads and writes, as one record.
WsState ==
  [pt |-> pendingTabs, pa |-> pendingActive, w2t |-> windowToTab,
   p2n |-> paneToNative, art |-> Artifacts, lt |-> layoutTimers,
   tasks |-> localTabTasks, uidTab |-> uidTab, uidPane |-> uidPane,
   sock |-> socketPath,
   pre |-> tmuxPrefetchedHistoryRef, infl |-> tmuxPrefetchInFlightRef,
   ptasks |-> prefetchTasks, htasks |-> hydrateTasks,
   arrived |-> outputArrived, exp |-> tabsExpected, rep |-> reportedIn,
   sync |-> << >>]

InstallWsState(next) ==
  \E W \in {next} :
    /\ pendingTabs' = W.pt
    /\ pendingActive' = W.pa
    /\ windowToTab' = W.w2t
    /\ paneToNative' = W.p2n
    /\ InstallArtifacts(W.art)
    /\ layoutTimers' = W.lt
    /\ localTabTasks' = W.tasks
    /\ uidTab' = W.uidTab
    /\ uidPane' = W.uidPane
    /\ socketPath' = W.sock
    /\ tmuxPrefetchedHistoryRef' = W.pre
    /\ tmuxPrefetchInFlightRef' = W.infl
    /\ prefetchTasks' = W.ptasks
    /\ hydrateTasks' = W.htasks
    /\ outputArrived' = W.arrived
    /\ ptyKills' = ptyKills
    /\ tabsExpected' = W.exp
    /\ reportedIn' = W.rep

\* What InstallWsState writes.
handlerVars ==
  <<pendingTabs, pendingActive, windowToTab, paneToNative, artifactVars,
    layoutTimers, localTabTasks, uidTab, uidPane, bootVars, historyVars>>

\* What no tmux-side handler writes, the line counter apart.
wsRest ==
  <<tabs, activeTabId, tabsRef, activeTabIdRef, localPtyToPaneRef, splitTasks,
    uidPty, menuActions>>

\* setTabs(updater) from a tmux-side handler.  React runs the updater at
\* the call when the component has no update pending (`eager`: it then keeps
\* the state the updater returned and the render does not run it again), and
\* at the next render otherwise.  Which of the two happens with an empty
\* queue is React's choice, so `eager` is an input of the handler.
\* React computes a state eagerly only for a component without pending work.
CanRunEagerly == Len(pendingTabs) = 0 /\ Len(pendingActive) = 0

eagerState(W, R) ==
  [W EXCEPT !.p2n = R.p2n, !.art = R.art, !.uidPane = R.uidPane,
            !.pa = R.act, !.tasks = R.tasks,
            !.pt = <<[Upd("value") EXCEPT !.tabs = R.tabs]>>]

setTabs(W, u, eager) ==
  IF eager /\ Len(W.pt) = 0 /\ Len(W.pa) = 0
  THEN eagerState(W, ApplyUpdate(u, [tabs |-> tabs, p2n |-> W.p2n, art |-> W.art,
                                     uidPane |-> W.uidPane, act |-> W.pa,
                                     tasks |-> W.tasks]))
  ELSE [W EXCEPT !.pt = Append(@, u)]

S_cr == <<"\r">>
S_crnl == <<"\r", "\n">>

\* text.replace(/\r?\n/g, "\r\n")
RECURSIVE ReplaceNewlines(_)
ReplaceNewlines(text) ==
  IF Len(text) = 0 THEN << >>
  ELSE IF Len(text) >= 2 /\ text[1] = "\r" /\ text[2] = "\n"
       THEN S_crnl \o ReplaceNewlines(Slice(text, 3))
  ELSE IF text[1] = "\n" THEN S_crnl \o ReplaceNewlines(Tail(text))
  ELSE <<text[1]>> \o ReplaceNewlines(Tail(text))

normalizeCapturedHistory(text) ==
  ReplaceNewlines(RemoveAll(sanitizeTmuxOutput(text), S_cr))

EndsWith(str, suffix) ==
  Len(str) >= Len(suffix) /\ SubSeq(str, Len(str) - Len(suffix) + 1, Len(str)) = suffix

\* normalized.endsWith("\r\n") ? normalized : `${normalized}\r\n`
HistoryOf(captured) ==
  LET normalized == normalizeCapturedHistory(captured) IN
  IF EndsWith(normalized, S_crnl) THEN normalized ELSE normalized \o S_crnl

PrefetchTask(c, tmuxPaneId, attempt, at) ==
  [c |-> c, tmuxPaneId |-> tmuxPaneId, attempt |-> attempt, at |-> at]

\* waits is history: the socket waits behind the chain.
HydrateTask(c, tmuxPaneId, paneId, attempt, at, waits) ==
  [c |-> c, tmuxPaneId |-> tmuxPaneId, paneId |-> paneId, attempt |-> attempt,
   at |-> at, waits |-> waits]

\* prefetchTmuxPaneHistory up to its first await.  A task "retry" stands for
\* the 150 ms timer, a task "capture" for the pending captureTmuxPane call.
prefetchTmuxPaneHistory(W, c, tmuxPaneId, attempt) ==
  IF Len(tmuxPaneId) = 0 THEN W
  ELSE IF Has(W.pre[c], tmuxPaneId) THEN W
  ELSE IF tmuxPaneId \in W.infl[c] THEN W
  ELSE IF ~W.sock[c]
  THEN IF attempt < 10
       THEN [W EXCEPT !.ptasks = @ \cup {PrefetchTask(c, tmuxPaneId, attempt + 1, "retry")}]
       ELSE W
  ELSE [W EXCEPT !.infl[c] = @ \cup {tmuxPaneId},
                 !.ptasks = @ \cup {PrefetchTask(c, tmuxPaneId, attempt, "capture")}]

\* hydrateTmuxPaneHistory up to its first await.
hydrateTmuxPaneHistory(W, c, tmuxPaneId, paneId, attempt, waits) ==
  LET prefetched == IF Has(W.pre[c], tmuxPaneId) THEN W.pre[c][tmuxPaneId] ELSE << >> IN
  IF Len(prefetched) > 0
  THEN [W EXCEPT !.pre[c] = MapDel(@, {tmuxPaneId}),
                 !.art = flushTmuxBootstrapPane(@, paneId, prefetched)]
  ELSE IF ~W.sock[c] /\ attempt <= 10
  THEN [W EXCEPT !.htasks = @ \cup
          {HydrateTask(c, tmuxPaneId, paneId, attempt + 1, "retry", waits + 1)}]
  ELSE [W EXCEPT !.htasks = @ \cup
          {HydrateTask(c, tmuxPaneId, paneId, attempt, "capture", waits)}]

\* Mutant: the newest chunk is dropped instead of the oldest.
RECURSIVE trimBootstrap_Newest(_)
trimBootstrap_Newest(b) ==
  IF /\ b.totalBytes > MAX_TMUX_BOOTSTRAP_BUFFER_BYTES
     /\ Len(b.chunks) > 1
     /\ Len(b.chunks[Len(b.chunks)]) > 0
  THEN trimBootstrap_Newest(
         [chunks |-> SubSeq(b.chunks, 1, Len(b.chunks) - 1),
          totalBytes |-> b.totalBytes - StrLen(b.chunks[Len(b.chunks)])])
  ELSE b

\* bootstrap.chunks.shift() while the buffer is over its limit
RECURSIVE trimBootstrap(_)
trimBootstrap(b) ==
  IF /\ b.totalBytes > MAX_TMUX_BOOTSTRAP_BUFFER_BYTES
     /\ Len(b.chunks) > 1
     /\ Len(Head(b.chunks)) > 0
  THEN trimBootstrap([chunks |-> Tail(b.chunks),
                      totalBytes |-> b.totalBytes - StrLen(Head(b.chunks))])
  ELSE b

\* handleTmuxControlLine, case "output"
handleOutput(W, c, parsed) ==
  LET event == parsed.event IN
  IF ~controllersRef[c] THEN W
  ELSE IF Len(parsed.dataSocket) > 0
  THEN [W EXCEPT !.sock[c] = TRUE]
  ELSE IF ~Has(W.p2n[c], event.paneId) THEN W
  ELSE LET mapping == W.p2n[c][event.paneId]
           sanitized == parsed.sanitized
       IN
       IF Len(sanitized) = 0 THEN W
       ELSE IF Has(W.art.boot, mapping.paneId)
       THEN LET b == W.art.boot[mapping.paneId]
                pushed == trimBootstrap(
                            [chunks |-> Append(b.chunks, sanitized),
                             totalBytes |-> b.totalBytes + StrLen(sanitized)])
                A1 == [W.art EXCEPT !.boot[mapping.paneId] = pushed]
            IN  [W EXCEPT !.arrived = Append(@, sanitized),
                          !.art = IF pushed.totalBytes >= MAX_TMUX_BOOTSTRAP_BUFFER_BYTES
                                  THEN flushTmuxBootstrapPane(A1, mapping.paneId, << >>)
                                  ELSE A1]
       ELSE [W EXCEPT !.arrived = Append(@, sanitized),
                      !.art = writeToPane(@, mapping.paneId, sanitized, "stream")]

RECURSIVE PanesOf(_)
PanesOf(node) ==
  IF node.type = "pane" THEN {node.tmuxPaneId}
  ELSE PanesOf(node.first) \cup PanesOf(node.second)

\* The panes a parsed layout lists, none when the layout did not parse.
ListedPanes(parsed) == IF parsed.ok THEN PanesOf(parsed.node) ELSE {}

\* The panes a layout string reported by tmux lists for its window.
ReportedPanes(layout) == ListedPanes(ParsedLayout(layout))

\* applyTmuxLayout once the window's tab id is known: `tabId` is the id the
\* window maps to (a fresh one when `known` is FALSE), `listed` the panes the
\* layout string lists.
applyTmuxLayoutFor(W, c, windowId, u, known, tabId, listed, reported, eager) ==
  [setTabs([W EXCEPT !.uidTab = IF known THEN @ ELSE tabId,
                     !.w2t[c] = MapPut(@, windowId, tabId)],
           [u EXCEPT !.tabId = tabId], eager)
   EXCEPT
     !.lt = @ \cup {<<c, tabId>>},
     !.pa = IF activeTabIdRef = 0
            THEN Append(@, ActUpd("set", 0, tabId)) ELSE @,
     !.exp = @ \cup {tabId},
     !.sync = IF activeTabIdRef = tabId THEN Append(@, tabId) ELSE @,
     !.rep[c] = IF reported
                THEN [tp \in {q \in DOMAIN W.rep[c] : W.rep[c][q] # windowId}
                              \cup listed |->
                        IF tp \in listed THEN windowId ELSE W.rep[c][tp]]
                ELSE @]

\* applyTmuxLayout, the updater being queued (see applyTmuxLayoutUpdater).
\* `reported` is FALSE for the layout made up for %window-add.
applyTmuxLayout(W, c, windowId, layout, name, hasName, reported, eager) ==
  IF ~controllersRef[c] THEN W
  ELSE applyTmuxLayoutFor(
         W, c, windowId,
         [Upd("layout") EXCEPT !.c = c, !.windowId = windowId, !.layout = layout,
                               !.name = name, !.hasName = hasName],
         Has(W.w2t[c], windowId),
         IF Has(W.w2t[c], windowId) THEN W.w2t[c][windowId] ELSE W.uidTab + 1,
         ReportedPanes(layout), reported, eager)

\* closeTmuxWindow
closeTmuxWindow(W, c, windowId) ==
  IF ~controllersRef[c] THEN W
  ELSE IF ~Has(W.w2t[c], windowId) THEN W
  ELSE LET tabId == W.w2t[c][windowId]
           removed == {tp \in DOMAIN W.p2n[c] : W.p2n[c][tp].tabId = tabId}
           removedPaneIds == {W.p2n[c][tp].paneId : tp \in removed}
           remainingTabs == SelectSeq(tabsRef, LAMBDA t : t.id # tabId)
       IN  [W EXCEPT
              !.w2t[c] = MapDel(@, {windowId}),
              !.p2n[c] = MapDel(@, removed),
              !.art = cleanupPaneArtifacts(@, removedPaneIds),
              !.pt = Append(@, [Upd("value") EXCEPT !.tabs = remainingTabs]),
              !.pa = IF activeTabIdRef = tabId
                     THEN Append(@, ActUpd("set", 0,
                            IF Len(remainingTabs) > 0 THEN remainingTabs[1].id ELSE 0))
                     ELSE @,
              !.tasks = IF Len(remainingTabs) = 0 THEN @ + 1 ELSE @,
              !.exp = @ \ {tabId},
              !.rep[c] = MapDel(@, {tp \in DOMAIN @ : @[tp] = windowId})]

\* handleTmuxControlLine past the capture transaction: the socket, pane and
\* window sniffers, then the switch on the parsed event.  `parsed` holds what
\* the handler computes from the line (see SniffLine).
dispatchControlLine(W, c, parsed, eager) ==
  LET socket == parsed.socket
      parsedPane == parsed.pane
      parsedBootstrap == parsed.window
      event == parsed.event
  IN
  IF Len(socket) > 0
  THEN IF controllersRef[c] THEN [W EXCEPT !.sock[c] = TRUE] ELSE W
  ELSE IF parsedPane.ok
  THEN prefetchTmuxPaneHistory(W, c, parsedPane.paneId, 1)
  ELSE IF parsedBootstrap.ok
  THEN applyTmuxLayout(W, c, parsedBootstrap.windowId, parsedBootstrap.layout,
                       parsedBootstrap.name, TRUE, TRUE, eager)
  ELSE CASE event.type = "output" -> handleOutput(W, c, parsed)
         [] event.type = "window-add" ->
              applyTmuxLayout(W, c, event.windowId, S_syntheticLayout, << >>, FALSE,
                              FALSE, eager)
         [] event.type = "window-close" -> closeTmuxWindow(W, c, event.windowId)
         [] event.type = "window-renamed" ->
              IF controllersRef[c] /\ Has(W.w2t[c], event.windowId)
              THEN [W EXCEPT !.pt = Append(@,
                      [Upd("title") EXCEPT !.tabId = W.w2t[c][event.windowId],
                                           !.name = event.name])]
              ELSE W
         [] event.type = "layout-change" ->
              applyTmuxLayout(W, c, event.windowId, event.layout, << >>, FALSE, TRUE,
                              eager)
         [] event.type = "window-pane-changed" ->
              IF controllersRef[c] /\ Has(W.p2n[c], event.paneId)
              THEN [W EXCEPT !.pt = Append(@,
                      [Upd("activePane") EXCEPT
                         !.tabId = W.p2n[c][event.paneId].tabId,
                         !.paneId = W.p2n[c][event.paneId].paneId])]
              ELSE W
         [] OTHER -> W

handleTmuxControlLine(c, line, parsed, eager) ==
  LET active == tmuxCaptureActiveRef[c]
      S == CaptureState
  IN
  IF Len(line) = 0
  THEN /\ UNCHANGED <<tmuxCaptureQueuesRef, tmuxCaptureActiveRef,
                      captureTimers, ptyWrites, captureResolved, lastResolved>>
       /\ captureSeen' =
            IF active # NoCapture /\ active.collecting
            THEN [captureSeen EXCEPT ![c] = Append(@, line)]
            ELSE captureSeen
       /\ InstallWsState(WsState)
       /\ UNCHANGED sizeVars
  ELSE IF active # NoCapture /\ StartsWith(line, S_begin)
  THEN /\ tmuxCaptureActiveRef' =
            [tmuxCaptureActiveRef EXCEPT ![c].collecting = TRUE]
       /\ UNCHANGED captureSeen
       /\ UNCHANGED <<tmuxCaptureQueuesRef, captureTimers,
                      ptyWrites, captureResolved, lastResolved>>
       /\ InstallWsState(WsState)
       /\ UNCHANGED sizeVars
  ELSE IF active # NoCapture /\ (StartsWith(line, S_end) \/ StartsWith(line, S_error))
  THEN /\ InstallCaptureState(
            runNextTmuxCapture(c, [S EXCEPT !.t = @ \ {<<c, active.id>>},
                                            !.a[c] = NoCapture]))
       /\ captureResolved' = [captureResolved EXCEPT ![c] = Append(@, active.id)]
       /\ lastResolved' = [id |-> active.id, text |-> Join(active.lines, S_nl),
                           via |-> IF StartsWith(line, S_end) THEN "end" ELSE "error",
                           began |-> active.collecting,
                           arrived |-> captureSeen[c]]
       /\ captureSeen' = [captureSeen EXCEPT ![c] = << >>]
       /\ InstallWsState(WsState)
       /\ UNCHANGED sizeVars
  ELSE IF active # NoCapture /\ active.collecting /\ ~StartsWith(line, S_pct)
  THEN /\ tmuxCaptureActiveRef' =
            [tmuxCaptureActiveRef EXCEPT ![c].lines = Append(@, line)]
       /\ captureSeen' = [captureSeen EXCEPT ![c] = Append(@, line)]
       /\ UNCHANGED <<tmuxCaptureQueuesRef, captureTimers,
                      ptyWrites, captureResolved, lastResolved>>
       /\ InstallWsState(WsState)
       /\ UNCHANGED sizeVars
  ELSE /\ \E W \in {dispatchControlLine(WsState, c, parsed, eager)} :
          \E Z \in {syncEach([SizeState EXCEPT !.grid = W.art.grid], W.sync)} :
            /\ InstallWsState(W)
            /\ tmuxClientSizeRef' = Z.csz
            /\ ptyResizes' = Z.rsz
            /\ ptyWrites' = Z.w
       /\ UNCHANGED <<tmuxCaptureQueuesRef, tmuxCaptureActiveRef, captureTimers,
                      captureResolved, lastResolved, captureSeen>>

\* A payload is sent once, so that the log tells the %output lines apart.
NotYetSent(line, parsed) ==
  line \in OutputLines =>
    parsed.sanitized \notin {outputArrived[i] : i \in DOMAIN outputArrived}

\* onPtyData for a tmux-control PTY, the payload being one complete line.
\* Lines outside the capture alphabet count against MaxEvents.
onPtyDataLine(c, line, parsed, eager) ==
  /\ ctlPhase[c] = "live"
  /\ (tmuxCaptureActiveRef[c].collecting /\ ~StartsWith(line, S_pct))
        => Len(captureSeen[c]) < MaxSeen
  /\ line \notin CaptureLines => linesHandled + menuActions < MaxEvents
  /\ NotYetSent(line, parsed)
  /\ eager => CanRunEagerly
  /\ handleTmuxControlLine(c, line, parsed, eager)
  /\ linesHandled' = IF line \in CaptureLines \/ UNCHANGED handlerVars
                      THEN linesHandled ELSE linesHandled + 1
  /\ UNCHANGED <<controllersRef, ctlPhase, captureSeq, captureEnqueued>>
  /\ UNCHANGED wsRest
  /\ UNCHANGED <<ptyVars, framingVars, shellSessions, probeVars>>

\* A line of a control PTY, whatever tmux it comes from.
OnTmuxControlLine(c, line, eager) ==
  /\ onPtyDataLine(c, line, ParsedLine(line), eager)
  /\ UNCHANGED tmuxReplies

\* startTmuxControl up to its await: the main process spawns the control PTY
\* (phase "spawned") and the call waits for the reply.
SpawnTmuxControl(c) ==
  /\ ctlPhase[c] = "none"
  /\ ctlPhase' = [ctlPhase EXCEPT ![c] = "spawned"]
  /\ UNCHANGED <<controllersRef, captureVars>>
  /\ UNCHANGED <<ptyVars, framingVars, shellSessions, sizeVars, probeVars, tmuxReplies, wsVars>>

\* startTmuxControl, after window.portableTerm.startTmuxControl resolved:
\* ensureController registers a controller with empty maps and the line
\* buffer of the PTY is set to "".  From phase "none" the step is the whole
\* call, no data of the PTY having come in between.
StartTmuxControl(c) ==
  /\ ctlPhase[c] \in {"none", "spawned"}
  /\ ctlPhase' = [ctlPhase EXCEPT ![c] = "live"]
  /\ controllersRef' = [controllersRef EXCEPT ![c] = TRUE]
  /\ tmuxLineBuffersRef' = [tmuxLineBuffersRef EXCEPT ![c] = << >>]
  /\ UNCHANGED <<streamFed, linesFramed>>
  /\ UNCHANGED captureVars
  /\ UNCHANGED <<ptyVars, shellSessions, sizeVars, probeVars, tmuxReplies, wsVars>>

\* onPtyExit for a tmux-control PTY.
OnPtyExitTmux(c, eager) ==
  /\ ctlPhase[c] = "live"
  /\ linesHandled + menuActions < MaxEvents
  /\ linesHandled' = linesHandled + 1
  /\ eager => CanRunEagerly
  /\ ctlPhase' = [ctlPhase EXCEPT ![c] = "exited"]
  /\ \E W \in {WsState} :
     \E W1 \in {setTabs(
                  [W EXCEPT !.art =
                     IF controllersRef[c]
                     THEN cleanupPaneArtifacts(
                            @, {W.p2n[c][tp].paneId : tp \in DOMAIN W.p2n[c]})
                     ELSE @],
                  [Upd("exit") EXCEPT !.c = c], eager)} :
     \E held \in {\E i \in DOMAIN W1.pt : W1.pt[i].k = "layout" /\ W1.pt[i].c = c} :
       InstallWsState(
         [W1 EXCEPT
            !.w2t[c] = IF held THEN @ ELSE EmptyMap,
            !.p2n[c] = IF held THEN @ ELSE EmptyMap,
            !.sock[c] = FALSE,
            !.pre[c] = EmptyMap,
            !.infl[c] = {},
            !.exp = @ \ Range(W.w2t[c]),
            !.rep[c] = EmptyMap])
  /\ controllersRef' = [controllersRef EXCEPT ![c] = FALSE]
  /\ captureTimers' = IF tmuxCaptureActiveRef[c] # NoCapture
                      THEN captureTimers \ {<<c, tmuxCaptureActiveRef[c].id>>}
                      ELSE captureTimers
  /\ tmuxCaptureActiveRef' = [tmuxCaptureActiveRef EXCEPT ![c] = NoCapture]
  /\ tmuxCaptureQueuesRef' = [tmuxCaptureQueuesRef EXCEPT ![c] = << >>]
  /\ tmuxClientSizeRef' = MapDel(tmuxClientSizeRef, {c})
  /\ UNCHANGED <<ptyWrites, captureSeq, captureEnqueued, captureResolved,
                 lastResolved, captureSeen, ptyResizes>>
  /\ UNCHANGED wsRest
  /\ UNCHANGED <<ptyVars, framingVars, shellSessions, probeVars, tmuxReplies>>

(***************************************************************************)
(* Timers and IPC completions of the bootstrap machinery.                  *)
(***************************************************************************)
\* The 15 s timer set by mapPane fires: flushTmuxBootstrapPane(paneId).
BootstrapFlushTimer(paneId) ==
  /\ paneId \in bootstrapTimers
  /\ InstallArtifacts(
       flushTmuxBootstrapPane([Artifacts EXCEPT !.timers = @ \ {paneId}], paneId, << >>))
  /\ UNCHANGED <<reactVars, bindingVars, bootVars, taskVars, counterVars, historyVars>>
  /\ UNCHANGED <<controllersRef, ctlPhase, captureVars, ptyVars, framingVars, shellSessions, sizeVars, probeVars, tmuxReplies>>

RECURSIVE hydrateAll(_, _, _)
hydrateAll(W, c, todo) ==
  IF todo = {} THEN W
  ELSE LET tp == CHOOSE x \in todo : TRUE
           paneId == W.p2n[c][tp].paneId
       IN  hydrateAll(
             hydrateTmuxPaneHistory([W EXCEPT !.art.hyd = @ \cup {paneId}],
                                    c, tp, paneId, 1, 0),
             c, todo \ {tp})

\* The setTimeout(0) callback of applyTmuxLayout.
LayoutTimerFire(c, tabId) ==
  /\ <<c, tabId>> \in layoutTimers
  /\ LET W == [WsState EXCEPT !.lt = @ \ {<<c, tabId>>}]
         todo == {tp \in DOMAIN W.p2n[c] :
                    /\ W.p2n[c][tp].tabId = tabId
                    /\ Has(W.art.boot, W.p2n[c][tp].paneId)
                    /\ W.p2n[c][tp].paneId \notin W.art.hyd}
     IN  InstallWsState(IF controllersRef[c] THEN hydrateAll(W, c, todo) ELSE W)
  /\ UNCHANGED <<wsRest, linesHandled>>
  /\ UNCHANGED <<controllersRef, ctlPhase, captureVars, ptyVars, framingVars, shellSessions, sizeVars, probeVars, tmuxReplies>>

\* A retry timer of hydrateTmuxPaneHistory fires.
HydrateRetry(task) ==
  /\ task \in hydrateTasks
  /\ task.at = "retry"
  /\ InstallWsState(
       hydrateTmuxPaneHistory([WsState EXCEPT !.htasks = @ \ {task}],
                              task.c, task.tmuxPaneId, task.paneId, task.attempt,
                              task.waits))
  /\ UNCHANGED <<wsRest, linesHandled>>
  /\ UNCHANGED <<controllersRef, ctlPhase, captureVars, ptyVars, framingVars, shellSessions, sizeVars, probeVars, tmuxReplies>>

\* captureTmuxPane settles for a hydration: `failed` for a rejection,
\* otherwise `captured` is the text it resolved with.
HydrateCaptured(task, failed, captured) ==
  /\ task \in hydrateTasks
  /\ task.at = "capture"
  /\ LET W == [WsState EXCEPT !.htasks = @ \ {task}]
         again == [W EXCEPT !.htasks = @ \cup
                     {HydrateTask(task.c, task.tmuxPaneId, task.paneId,
                                  task.attempt + 1, "retry", task.waits)}]
     IN  InstallWsState(
           IF (failed \/ Len(captured) = 0) /\ task.attempt < 4 THEN again
           ELSE IF failed \/ Len(captured) = 0
           THEN [W EXCEPT !.art = flushTmuxBootstrapPane(@, task.paneId, << >>)]
           ELSE [W EXCEPT !.art = flushTmuxBootstrapPane(@, task.paneId,
                                                         HistoryOf(captured))])
  /\ UNCHANGED <<wsRest, linesHandled>>
  /\ UNCHANGED <<controllersRef, ctlPhase, captureVars, ptyVars, framingVars, shellSessions, sizeVars, probeVars, tmuxReplies>>

\* The 150 ms retry timer of prefetchTmuxPaneHistory fires.
PrefetchRetry(task) ==
  /\ task \in prefetchTasks
  /\ task.at = "retry"
  /\ InstallWsState(
       prefetchTmuxPaneHistory([WsState EXCEPT !.ptasks = @ \ {task}],
                               task.c, task.tmuxPaneId, task.attempt))
  /\ UNCHANGED <<wsRest, linesHandled>>
  /\ UNCHANGED <<controllersRef, ctlPhase, captureVars, ptyVars, framingVars, shellSessions, sizeVars, probeVars, tmuxReplies>>

\* captureTmuxPane settles for a prefetch.  After the controller's exit the
\* maps the closure holds are no longer the registered ones.
PrefetchCaptured(task, failed, captured) ==
  /\ task \in prefetchTasks
  /\ task.at = "capture"
  /\ LET W == [WsState EXCEPT !.ptasks = @ \ {task}]
         c == task.c
     IN  InstallWsState(
           IF ~controllersRef[c] THEN W
           ELSE IF failed \/ Len(captured) = 0
           THEN [W EXCEPT !.infl[c] = @ \ {task.tmuxPaneId}]
           ELSE [W EXCEPT !.pre[c] = MapPut(@, task.tmuxPaneId, HistoryOf(captured)),
                          !.infl[c] = @ \ {task.tmuxPaneId}])
  /\ UNCHANGED <<wsRest, linesHandled>>
  /\ UNCHANGED <<controllersRef, ctlPhase, captureVars, ptyVars, framingVars, shellSessions, sizeVars, probeVars, tmuxReplies>>

(***************************************************************************)
(* Local tabs and panes: the menu actions and the createPty completions.   *)
(***************************************************************************)
\* Menu action "new-tab": createLocalTab up to its await of createPty.
MenuNewTab ==
  /\ linesHandled + menuActions < MaxEvents
  /\ menuActions' = menuActions + 1
  /\ localTabTasks' = localTabTasks + 1
  /\ UNCHANGED <<reactVars, bindingVars, artifactVars, bootVars, layoutTimers,
                 splitTasks, uidTab, uidPane, uidPty, linesHandled, historyVars>>
  /\ UNCHANGED <<controllersRef, ctlPhase, captureVars, ptyVars, framingVars, shellSessions, sizeVars, probeVars, tmuxReplies>>

\* createLocalTab after createPty settled; `created` is FALSE for a rejection,
\* `backend` is created.backend.
CreateLocalTabSettled(created, backend) ==
  /\ localTabTasks > 0
  /\ localTabTasks' = localTabTasks - 1
  /\ IF created
     THEN LET tabId == uidTab + 1
              paneId == uidPane + 1
              ptyId == uidPty + 1
              tab == [id |-> tabId, title |-> S_shell,
                      layout |-> singlePaneLayout(paneId),
                      panes |-> MapPut(EmptyMap, paneId, LocalPane(paneId, ptyId, backend)),
                      activePaneId |-> paneId, tmuxWindowId |-> << >>,
                      controlPtyId |-> ""]
          IN
          /\ uidTab' = tabId
          /\ uidPane' = paneId
          /\ uidPty' = ptyId
          /\ localPtyToPaneRef' =
               MapPut(localPtyToPaneRef, ptyId, [tabId |-> tabId, paneId |-> paneId])
          /\ pendingTabs' = Append(pendingTabs, [Upd("append") EXCEPT !.tab = tab])
          /\ pendingActive' = Append(pendingActive, ActUpd("set", 0, tabId))
          /\ tabsExpected' = tabsExpected \cup {tabId}
          /\ shellSessions' = MapPut(shellSessions, ptyId, << >>)
     ELSE UNCHANGED <<uidTab, uidPane, uidPty, localPtyToPaneRef, pendingTabs,
                      pendingActive, tabsExpected, shellSessions>>
  /\ UNCHANGED <<tabs, activeTabId, tabsRef, activeTabIdRef, windowToTab,
                 paneToNative, artifactVars, bootVars, layoutTimers, splitTasks,
                 linesHandled, menuActions, reportedIn, outputArrived, ptyKills>>
  /\ UNCHANGED <<controllersRef, ctlPhase, captureVars, ptyVars, framingVars, sizeVars, probeVars, tmuxReplies>>

\* createLocalTab on the primary backend.
CreateLocalTabResolved(created) == CreateLocalTabSettled(created, "pty")

\* getActiveTab
getActiveTab ==
  IF activeTabIdRef = 0 \/ TabIndex(tabsRef, activeTabIdRef) = 0 THEN NoTab
  ELSE tabsRef[TabIndex(tabsRef, activeTabIdRef)]

\* Menu action "split-horizontal" / "split-vertical": splitActivePane up to
\* its await of createPty.  For a tmux pane the split is asked of tmux.
MenuSplit(direction) ==
  /\ linesHandled + menuActions < MaxEvents
  /\ LET activeTab == getActiveTab IN
     splitTasks' =
       IF /\ activeTab # NoTab
          /\ Has(activeTab.panes, activeTab.activePaneId)
          /\ activeTab.panes[activeTab.activePaneId].type # "tmux"
       THEN Append(splitTasks, [tabId |-> activeTab.id, direction |-> direction])
       ELSE splitTasks
  /\ menuActions' = IF UNCHANGED splitTasks THEN menuActions ELSE menuActions + 1
  /\ UNCHANGED <<reactVars, bindingVars, artifactVars, bootVars, layoutTimers,
                 localTabTasks, uidTab, uidPane, uidPty, linesHandled, historyVars>>
  /\ UNCHANGED <<controllersRef, ctlPhase, captureVars, ptyVars, framingVars, shellSessions, sizeVars, probeVars, tmuxReplies>>

\* splitActivePane after createPty settled.  A rejection ends the call.
SplitSettled(created, backend) ==
  /\ Len(splitTasks) > 0
  /\ splitTasks' = Tail(splitTasks)
  /\ IF created
     THEN LET task == Head(splitTasks)
              newPaneId == uidPane + 1
              ptyId == uidPty + 1
          IN
          /\ uidPane' = newPaneId
          /\ uidPty' = ptyId
          /\ localPtyToPaneRef' =
               MapPut(localPtyToPaneRef, ptyId,
                      [tabId |-> task.tabId, paneId |-> newPaneId])
          /\ pendingTabs' =
               Append(pendingTabs,
                      [Upd("split") EXCEPT !.tabId = task.tabId, !.paneId = newPaneId,
                                           !.ptyId = ptyId, !.backend = backend,
                                           !.direction = task.direction])
          /\ shellSessions' = MapPut(shellSessions, ptyId, << >>)
     ELSE UNCHANGED <<uidPane, uidPty, localPtyToPaneRef, pendingTabs, shellSessions>>
  /\ UNCHANGED <<tabs, activeTabId, tabsRef, activeTabIdRef, pendingActive,
                 windowToTab, paneToNative, artifactVars, bootVars, layoutTimers,
                 localTabTasks, uidTab, linesHandled, menuActions, historyVars>>
  /\ UNCHANGED <<controllersRef, ctlPhase, captureVars, ptyVars, framingVars, sizeVars, probeVars, tmuxReplies>>

\* splitActivePane on the primary backend.
SplitResolved(created) == SplitSettled(created, "pty")

S_killPane == <<"k", "i", "l", "l", "-", "p", "a", "n", "e", " ", "-", "t", " ">>
S_killWindow ==
  <<"k", "i", "l", "l", "-", "w", "i", "n", "d", "o", "w", " ", "-", "t", " ">>
S_detachClient ==
  <<"d", "e", "t", "a", "c", "h", "-", "c", "l", "i", "e", "n", "t", "\n">>

\* What the close actions leave alone.
closeFrame ==
  <<tabs, activeTabId, tabsRef, activeTabIdRef, windowToTab, paneToNative,
    bootVars, layoutTimers, splitTasks, uidTab, uidPane, uidPty, linesHandled,
    reportedIn, outputArrived, controllersRef, ctlPhase, tmuxCaptureQueuesRef,
    tmuxCaptureActiveRef, captureTimers, captureSeq, captureEnqueued,
    captureResolved, lastResolved, captureSeen, ptyVars, framingVars, sizeVars, probeVars, tmuxReplies>>

\* void window.portableTerm.writePty(controlPtyId, data) and return
WriteControl(c, data) ==
  /\ ptyWrites' = [ptyWrites EXCEPT ![c] = Append(@, UiCommand(data))]
  /\ menuActions' = menuActions + 1
  /\ UNCHANGED <<pendingTabs, pendingActive, localPtyToPaneRef, artifactVars,
                 localTabTasks, tabsExpected, ptyKills, shellSessions>>

\* The pty ids of the panes P of a tab, in the order of Object.values(panes):
\* local panes enter the map in the order of their ids.
RECURSIVE PtyIdsOf(_, _)
PtyIdsOf(tab, P) ==
  IF P = {} THEN << >>
  ELSE LET first == CHOOSE x \in P : \A y \in P : x <= y IN
       (IF tab.panes[first].ptyId # 0 THEN <<tab.panes[first].ptyId>> ELSE << >>)
         \o PtyIdsOf(tab, P \ {first})

\* removeTabById for a tab that is not bound to a tmux window
RemoveLocalTab(targetTab) ==
  LET killed == PtyIdsOf(targetTab, DOMAIN targetTab.panes)
      nextTabs == SelectSeq(tabsRef, LAMBDA t : t.id # targetTab.id)
  IN  /\ InstallArtifacts(cleanupPaneArtifacts(Artifacts, DOMAIN targetTab.panes))
      /\ localPtyToPaneRef' = MapDel(localPtyToPaneRef, Range(killed))
      /\ ptyKills' = ptyKills \o killed
      /\ shellSessions' = MapDel(shellSessions, Range(killed))
      /\ pendingTabs' = Append(pendingTabs, [Upd("remove") EXCEPT !.tabId = targetTab.id])
      /\ pendingActive' =
           Append(pendingActive,
                  IF Len(nextTabs) > 0
                  THEN ActUpd("ifcur", targetTab.id, nextTabs[1].id)
                  ELSE ActUpd("set", 0, 0))
      /\ localTabTasks' = IF Len(nextTabs) > 0 THEN localTabTasks
                          ELSE localTabTasks + 1
      /\ tabsExpected' = tabsExpected \ {targetTab.id}
      /\ menuActions' = menuActions + 1
      /\ UNCHANGED ptyWrites

\* Mutant: kill-window also for the only tab of a control session.
removeTabById_NoDetach(targetTab) ==
  IF Len(targetTab.tmuxWindowId) > 0 /\ targetTab.controlPtyId # ""
  THEN WriteControl(targetTab.controlPtyId,
                    S_killWindow \o targetTab.tmuxWindowId \o S_nl)
  ELSE RemoveLocalTab(targetTab)

\* removeTabById(tabId)
removeTabById(targetTab) ==
  IF Len(targetTab.tmuxWindowId) > 0 /\ targetTab.controlPtyId # ""
  THEN LET tabsForSameClient ==
             SelectSeq(tabsRef, LAMBDA t : t.controlPtyId = targetTab.controlPtyId)
       IN  WriteControl(targetTab.controlPtyId,
                        IF Len(tabsForSameClient) <= 1 THEN S_detachClient
                        ELSE S_killWindow \o targetTab.tmuxWindowId \o S_nl)
  ELSE RemoveLocalTab(targetTab)

\* The close button of a tab: removeTabById(tab.id).
CloseTab(tabId) ==
  /\ linesHandled + menuActions < MaxEvents
  /\ TabIndex(tabsRef, tabId) > 0
  /\ removeTabById(tabsRef[TabIndex(tabsRef, tabId)])
  /\ UNCHANGED closeFrame

\* Menu action "close-pane": closeActivePane, with removeTabById when the
\* pane is the only one of its tab.
MenuClosePane ==
  /\ linesHandled + menuActions < MaxEvents
  /\ LET activeTab == getActiveTab
         paneId == activeTab.activePaneId
         paneCount == Cardinality(DOMAIN activeTab.panes)
     IN
     IF activeTab = NoTab \/ ~Has(activeTab.panes, paneId)
     THEN UNCHANGED <<pendingTabs, pendingActive, localPtyToPaneRef, artifactVars,
                      localTabTasks, tabsExpected, ptyKills, ptyWrites, menuActions,
                      shellSessions>>
     ELSE LET paneToClose == activeTab.panes[paneId] IN
     IF /\ paneToClose.type = "tmux"
        /\ Len(paneToClose.tmuxPaneId) > 0
        /\ paneToClose.controlPtyId # ""
     THEN WriteControl(paneToClose.controlPtyId,
                       S_killPane \o paneToClose.tmuxPaneId \o S_nl)
     ELSE IF paneCount = 1
     THEN removeTabById(activeTab)
     ELSE /\ localPtyToPaneRef' = MapDel(localPtyToPaneRef, {paneToClose.ptyId})
          /\ ptyKills' = ptyKills \o PtyIdsOf(activeTab, {paneId})
          /\ shellSessions' = MapDel(shellSessions, {paneToClose.ptyId})
          /\ InstallArtifacts(cleanupPaneArtifacts(Artifacts, {paneId}))
          /\ pendingTabs' = Append(pendingTabs,
                                   [Upd("closePane") EXCEPT !.tabId = activeTab.id])
          /\ menuActions' = menuActions + 1
          /\ UNCHANGED <<pendingActive, localTabTasks, tabsExpected, ptyWrites>>
  /\ UNCHANGED closeFrame


(***************************************************************************)
(* Local shells: the exit of a shell PTY and keyboard input to a pane.     *)
(***************************************************************************)
CtrlC == "^C"
Tab == "\t"
Del == "DEL"

\* The characters below 0x20, and 0x7f, other than \r, \n and \t.
ControlChars == {CtrlC, Del}

ExitCodes == {0, 130}
PaneInputs == {<<"a">>, <<"\r">>, <<CtrlC>>}

S_processExited ==
  <<"[", "P", "r", "o", "c", "e", "s", "s", " ", "e", "x", "i", "t", "e", "d", " ",
    "w", "i", "t", "h", " ", "c", "o", "d", "e", " ">>

\* `\r\n[Process exited with code ${payload.exitCode}]\r\n`
ExitNotice(exitCode) ==
  S_crnl \o S_processExited \o NatToStr(exitCode) \o <<"]">> \o S_crnl

\* toSafeLocalEcho
RECURSIVE toSafeLocalEcho(_)
toSafeLocalEcho(input) ==
  IF Len(input) = 0 THEN << >>
  ELSE (IF Head(input) \in {"\r", "\n"} THEN S_crnl
        ELSE IF Head(input) = Tab THEN <<Tab>>
        ELSE IF Head(input) \notin ControlChars THEN <<Head(input)>>
        ELSE << >>) \o toSafeLocalEcho(Tail(input))

\* Mutant: nothing is echoed.
toSafeLocalEcho_Silent(input) == << >>

\* pty:write in the main process: session.write(data) of the backend, on the
\* data the shell has received so far.  The pipe backend turns 0x03 into a
\* SIGINT and writes the rest, if any.
SessionWrite(backend, received, data) ==
  IF backend = "pipe"
  THEN LET rest == SelectSeq(data, LAMBDA ch : ch # CtrlC) IN
       IF Len(rest) = 0 THEN received ELSE Append(received, rest)
  ELSE Append(received, data)

\* window.clearTimeout(timeoutId): the timer of a probe is named by its token.
clearProbeTimeout(timers, token) == {t \in timers : t.token # token}

\* The renderer's pty:exit handler for kind "shell": instance.onExit in the
\* main process drops the session and forwards the exit.  A killed PTY also
\* reports its exit.  The timer of a probe pending on the PTY is cleared and
\* the probe dropped.
OnPtyExitShell(ptyId, exitCode) ==
  /\ Has(shellSessions, ptyId) \/ ptyId \in Range(ptyKills)
  /\ shellSessions' = MapDel(shellSessions, {ptyId})
  /\ IF Has(shellTmuxProbeRef, ptyId)
     THEN /\ probeTimers' = clearProbeTimeout(probeTimers, shellTmuxProbeRef[ptyId].token)
          /\ shellTmuxProbeRef' = MapDel(shellTmuxProbeRef, {ptyId})
     ELSE UNCHANGED <<shellTmuxProbeRef, probeTimers>>
  /\ UNCHANGED <<probeResolved, probeSeq>>
  /\ IF Has(localPtyToPaneRef, ptyId)
     THEN /\ InstallArtifacts(writeToPane(Artifacts, localPtyToPaneRef[ptyId].paneId,
                                          ExitNotice(exitCode), "exit"))
          /\ localPtyToPaneRef' = MapDel(localPtyToPaneRef, {ptyId})
     ELSE UNCHANGED <<artifactVars, localPtyToPaneRef>>
  /\ UNCHANGED <<reactVars, windowToTab, paneToNative, bootVars, taskVars,
                 counterVars, historyVars>>
  /\ UNCHANGED <<controllersRef, ctlPhase, captureVars, ptyVars, framingVars, sizeVars, tmuxReplies>>

\* handlePaneInput for a local pane of a rendered tab.  A keystroke that is
\* echoed or reaches a shell counts as an event.
HandleLocalPaneInput(tabId, paneId, input) ==
  /\ linesHandled + menuActions < MaxEvents
  /\ TabIndex(tabsRef, tabId) # 0
  /\ LET tab == tabsRef[TabIndex(tabsRef, tabId)] IN
     /\ Has(tab.panes, paneId)
     /\ LET pane == tab.panes[paneId]
            localEcho == toSafeLocalEcho(input)
        IN
        /\ pane.type = "local" /\ pane.ptyId # 0
        /\ IF pane.backend = "pipe" /\ Len(localEcho) > 0
           THEN InstallArtifacts(writeToPane(Artifacts, pane.id, localEcho, "echo"))
           ELSE UNCHANGED artifactVars
        /\ shellSessions' =
             IF Has(shellSessions, pane.ptyId)
             THEN [shellSessions EXCEPT
                     ![pane.ptyId] = SessionWrite(pane.backend, @, input)]
             ELSE shellSessions
  /\ menuActions' = IF UNCHANGED <<artifactVars, shellSessions>> THEN menuActions
                    ELSE menuActions + 1
  /\ UNCHANGED <<reactVars, bindingVars, bootVars, taskVars, uidTab, uidPane, uidPty,
                 linesHandled, historyVars>>
  /\ UNCHANGED <<controllersRef, ctlPhase, captureVars, ptyVars, framingVars, sizeVars, probeVars, tmuxReplies>>


(***************************************************************************)
(* Pane resizes and the size of the tmux client.                           *)
(***************************************************************************)
GridCols == {4, 40}
GridRows == {3, 12}

\* What a size sync leaves alone, the event counter apart.
sizeFrame ==
  <<reactVars, bindingVars, tmuxPaneBootstrapRef, bootstrapTimers,
    tmuxHydrateStartedRef, paneHistoryRef, writerLog, flushLog, bootVars, taskVars,
    uidTab, uidPane, uidPty, linesHandled, historyVars, controllersRef, ctlPhase,
    tmuxCaptureQueuesRef, tmuxCaptureActiveRef, captureTimers, captureSeq,
    captureEnqueued, captureResolved, lastResolved, captureSeen, ptyVars,
    framingVars, shellSessions, probeVars, tmuxReplies>>

InstallSizeState(next) ==
  \E Z \in {next} :
    /\ paneGridSizeRef' = Z.grid
    /\ tmuxPaneSizeRef' = Z.psize
    /\ tmuxClientSizeRef' = Z.csz
    /\ ptyResizes' = Z.rsz
    /\ ptyWrites' = Z.w

\* handlePaneResize for a tmux pane of a rendered tab.  A resize that
\* changes a ref or writes a command counts as an event.
HandleTmuxPaneResize(tabId, paneId, cols, rows) ==
  /\ linesHandled + menuActions < MaxEvents
  /\ TabIndex(tabsRef, tabId) # 0
  /\ LET tab == tabsRef[TabIndex(tabsRef, tabId)] IN
     /\ Has(tab.panes, paneId)
     /\ LET pane == tab.panes[paneId]
            safe == PaneGridSize(Max(10, cols), Max(5, rows))
            Z0 == [SizeState EXCEPT !.grid = MapPut(@, paneId, safe)]
            Z1 == IF Len(pane.tmuxPaneId) > 0
                     /\ (~Has(Z0.psize, pane.id) \/ Z0.psize[pane.id] # safe)
                  THEN [Z0 EXCEPT
                          !.psize = MapPut(@, pane.id, safe),
                          !.w[pane.controlPtyId] =
                             Append(@, UiCommand(ResizePane(pane.tmuxPaneId, safe)))]
                  ELSE Z0
        IN
        /\ pane.type = "tmux" /\ pane.controlPtyId # ""
        /\ InstallSizeState(syncTmuxClientSizeForTab(Z1, tabId))
  /\ menuActions' = IF UNCHANGED <<paneGridSizeRef, tmuxPaneSizeRef, sizeVars, ptyWrites>>
                    THEN menuActions ELSE menuActions + 1
  /\ UNCHANGED sizeFrame

\* effectiveActiveTabId of the last render
effectiveActiveTabId ==
  IF activeTabId # 0 THEN activeTabId
  ELSE IF Len(tabs) > 0 THEN tabs[1].id ELSE 0

\* The animation frame requested by the effect on [effectiveActiveTabId, tabs].
ClientSizeFrame ==
  /\ effectiveActiveTabId # 0
  /\ TabIndex(tabsRef, effectiveActiveTabId) # 0
  /\ tabsRef[TabIndex(tabsRef, effectiveActiveTabId)].controlPtyId # ""
  /\ InstallSizeState(syncTmuxClientSizeForTab(SizeState, effectiveActiveTabId))
  /\ UNCHANGED menuActions
  /\ UNCHANGED sizeFrame

\* handleUp of a divider drag on a tab
DragRelease(tabId) ==
  /\ InstallSizeState(syncTmuxClientSizeForTab(SizeState, tabId))
  /\ UNCHANGED menuActions
  /\ UNCHANGED sizeFrame


(***************************************************************************)
(* The PTY session manager of the main process (electron/main.ts) and the  *)
(* helper process (electron/pty-helper.cjs).  The owner window is alive    *)
(* throughout, so forwardPtyData and forwardPtyExit always reach the       *)
(* renderer; ptyEvents records what they send, per session.                *)
(***************************************************************************)
forwardPtyData(log, id) == [log EXCEPT ![id] = Append(@, "data")]

forwardPtyExit(log, id) == [log EXCEPT ![id] = Append(@, "exit")]

HelperMsg(type, id) == [type |-> type, sessionId |-> id]

\* createPtySession: node-pty in the main process, else the helper, else a
\* plain child process with pipes.  `backend` is the first one that did not
\* throw.
createPtySession(id, backend) ==
  /\ ptyBackend[id] = "none"
  /\ ptyBackend' = [ptyBackend EXCEPT ![id] = backend]
  /\ ptySessions' = [ptySessions EXCEPT ![id] = TRUE]
  /\ ptyChild' = [ptyChild EXCEPT ![id] =
                    IF backend = "helper" THEN "requested" ELSE "running"]
  /\ pipeStreams' = [pipeStreams EXCEPT ![id] = (backend = "pipe")]
  /\ helperProcess' = (helperProcess \/ backend = "helper")
  /\ helperStdin' = IF backend = "helper"
                    THEN Append(helperStdin, HelperMsg("create", id))
                    ELSE helperStdin
  /\ UNCHANGED <<ptyDataSent, helperStdout, helperSessions, ptyEvents>>
  /\ UNCHANGED <<controllersRef, ctlPhase, captureVars, wsVars, framingVars, shellSessions, sizeVars, probeVars, tmuxReplies, ipcReturned>>

\* createPtyBackedSession: instance.onData
PtyInstanceData(id) ==
  /\ ptyBackend[id] = "pty"
  /\ ptyChild[id] = "running"
  /\ ptyDataSent[id] < MaxPtyData
  /\ ptyDataSent' = [ptyDataSent EXCEPT ![id] = @ + 1]
  /\ ptyEvents' = forwardPtyData(ptyEvents, id)
  /\ UNCHANGED <<ptySessions, ptyBackend, ptyChild, pipeStreams, helperProcess,
                 helperStdin, helperStdout, helperSessions>>
  /\ UNCHANGED <<controllersRef, ctlPhase, captureVars, wsVars, framingVars, shellSessions, sizeVars, probeVars, tmuxReplies, ipcReturned>>

\* createPtyBackedSession: instance.onExit
PtyInstanceExit(id) ==
  /\ ptyBackend[id] = "pty"
  /\ ptyChild[id] = "running"
  /\ ptyChild' = [ptyChild EXCEPT ![id] = "exited"]
  /\ ptySessions' = [ptySessions EXCEPT ![id] = FALSE]
  /\ ptyEvents' = forwardPtyExit(ptyEvents, id)
  /\ UNCHANGED <<ptyBackend, ptyDataSent, pipeStreams, helperProcess,
                 helperStdin, helperStdout, helperSessions>>
  /\ UNCHANGED <<controllersRef, ctlPhase, captureVars, wsVars, framingVars, shellSessions, sizeVars, probeVars, tmuxReplies, ipcReturned>>

\* createPipeBackedSession: child.stdout / child.stderr "data".  Node may
\* deliver buffered output of a child after its "exit" event, until the
\* streams close.
PipeChildOutput(id) ==
  /\ ptyBackend[id] = "pipe"
  /\ pipeStreams[id]
  /\ ptyDataSent[id] < MaxPtyData
  /\ ptyDataSent' = [ptyDataSent EXCEPT ![id] = @ + 1]
  /\ ptyEvents' = forwardPtyData(ptyEvents, id)
  /\ UNCHANGED <<ptySessions, ptyBackend, ptyChild, pipeStreams, helperProcess,
                 helperStdin, helperStdout, helperSessions>>
  /\ UNCHANGED <<controllersRef, ctlPhase, captureVars, wsVars, framingVars, shellSessions, sizeVars, probeVars, tmuxReplies, ipcReturned>>

\* createPipeBackedSession: child.on("exit")
PipeChildExit(id) ==
  /\ ptyBackend[id] = "pipe"
  /\ ptyChild[id] \in {"running", "errored", "killed"}
  /\ ptyChild' = [ptyChild EXCEPT ![id] = "exited"]
  /\ ptySessions' = [ptySessions EXCEPT ![id] = FALSE]
  /\ ptyEvents' = forwardPtyExit(ptyEvents, id)
  /\ UNCHANGED <<ptyBackend, ptyDataSent, pipeStreams, helperProcess,
                 helperStdin, helperStdout, helperSessions>>
  /\ UNCHANGED <<controllersRef, ctlPhase, captureVars, wsVars, framingVars, shellSessions, sizeVars, probeVars, tmuxReplies, ipcReturned>>

\* createPipeBackedSession: child.on("error"); "exit" may or may not follow.
PipeChildError(id) ==
  /\ ptyBackend[id] = "pipe"
  /\ ptyChild[id] = "running"
  /\ ptyChild' = [ptyChild EXCEPT ![id] = "errored"]
  /\ ptyEvents' = forwardPtyData(ptyEvents, id)
  /\ UNCHANGED <<ptySessions, ptyBackend, ptyDataSent, pipeStreams, helperProcess,
                 helperStdin, helperStdout, helperSessions>>
  /\ UNCHANGED <<controllersRef, ctlPhase, captureVars, wsVars, framingVars, shellSessions, sizeVars, probeVars, tmuxReplies, ipcReturned>>

\* The stdio streams of a pipe child close once the child is gone.
PipeStreamsClose(id) ==
  /\ ptyBackend[id] = "pipe"
  /\ ptyChild[id] \in {"exited", "errored"}
  /\ pipeStreams[id]
  /\ pipeStreams' = [pipeStreams EXCEPT ![id] = FALSE]
  /\ UNCHANGED <<ptySessions, ptyBackend, ptyChild, ptyDataSent, helperProcess,
                 helperStdin, helperStdout, helperSessions, ptyEvents>>
  /\ UNCHANGED <<controllersRef, ctlPhase, captureVars, wsVars, framingVars, shellSessions, sizeVars, probeVars, tmuxReplies, ipcReturned>>

\* pty-helper.cjs: the stdin handler takes the next message (handleMessage).
\* `spawned` is whether pty.spawn succeeded, for a create message.
HelperHandleMessage(spawned) ==
  /\ Len(helperStdin) > 0
  /\ LET msg == Head(helperStdin)
         id == msg.sessionId
     IN
     /\ helperStdin' = Tail(helperStdin)
     /\ IF msg.type = "create"
        THEN IF spawned
             THEN /\ helperSessions' = helperSessions \cup {id}
                  /\ ptyChild' = [ptyChild EXCEPT ![id] = "running"]
                  /\ helperStdout' = Append(helperStdout, HelperMsg("created", id))
             ELSE /\ ptyChild' = [ptyChild EXCEPT ![id] = "failed"]
                  /\ helperStdout' = Append(helperStdout, HelperMsg("create-error", id))
                  /\ UNCHANGED helperSessions
        ELSE IF msg.type = "write"
        THEN \* onWrite: instance.write, if the helper knows the session
             /\ spawned
             /\ UNCHANGED <<helperSessions, ptyChild, helperStdout>>
        ELSE \* "kill": onKill
             /\ spawned
             /\ helperSessions' = helperSessions \ {id}
             /\ UNCHANGED <<ptyChild, helperStdout>>
  /\ UNCHANGED <<ptySessions, ptyBackend, ptyDataSent, pipeStreams, helperProcess,
                 ptyEvents>>
  /\ UNCHANGED <<controllersRef, ctlPhase, captureVars, wsVars, framingVars, shellSessions, sizeVars, probeVars, tmuxReplies, ipcReturned>>

\* pty-helper.cjs onCreate: instance.onData
HelperInstanceData(id) ==
  /\ ptyBackend[id] = "helper"
  /\ ptyChild[id] = "running"
  /\ ptyDataSent[id] < MaxPtyData
  /\ ptyDataSent' = [ptyDataSent EXCEPT ![id] = @ + 1]
  /\ helperStdout' = Append(helperStdout, HelperMsg("data", id))
  /\ UNCHANGED <<ptySessions, ptyBackend, ptyChild, pipeStreams, helperProcess,
                 helperStdin, helperSessions, ptyEvents>>
  /\ UNCHANGED <<controllersRef, ctlPhase, captureVars, wsVars, framingVars, shellSessions, sizeVars, probeVars, tmuxReplies, ipcReturned>>

\* pty-helper.cjs onCreate: instance.onExit
HelperInstanceExit(id) ==
  /\ ptyBackend[id] = "helper"
  /\ ptyChild[id] = "running"
  /\ ptyChild' = [ptyChild EXCEPT ![id] = "exited"]
  /\ helperSessions' = helperSessions \ {id}
  /\ helperStdout' = Append(helperStdout, HelperMsg("exit", id))
  /\ UNCHANGED <<ptySessions, ptyBackend, ptyDataSent, pipeStreams, helperProcess,
                 helperStdin, ptyEvents>>
  /\ UNCHANGED <<controllersRef, ctlPhase, captureVars, wsVars, framingVars, shellSessions, sizeVars, probeVars, tmuxReplies, ipcReturned>>

\* ensureHelperProcess: the helper's stdout handler takes one complete line.
HelperStdoutLine ==
  /\ Len(helperStdout) > 0
  /\ LET msg == Head(helperStdout)
         id == msg.sessionId
     IN
     /\ helperStdout' = Tail(helperStdout)
     /\ IF ~ptySessions[id]
        THEN UNCHANGED <<ptySessions, ptyEvents>>
        ELSE CASE msg.type = "created" ->
                    UNCHANGED <<ptySessions, ptyEvents>>
               [] msg.type = "data" ->
                    /\ ptyEvents' = forwardPtyData(ptyEvents, id)
                    /\ UNCHANGED ptySessions
               [] msg.type = "exit" ->
                    /\ ptySessions' = [ptySessions EXCEPT ![id] = FALSE]
                    /\ ptyEvents' = forwardPtyExit(ptyEvents, id)
               [] msg.type = "create-error" ->
                    /\ ptySessions' = [ptySessions EXCEPT ![id] = FALSE]
                    /\ ptyEvents' = forwardPtyExit(forwardPtyData(ptyEvents, id), id)
  /\ UNCHANGED <<ptyBackend, ptyChild, ptyDataSent, pipeStreams, helperProcess,
                 helperStdin, helperSessions>>
  /\ UNCHANGED <<controllersRef, ctlPhase, captureVars, wsVars, framingVars, shellSessions, sizeVars, probeVars, tmuxReplies, ipcReturned>>

\* ipcMain.handle("pty:kill"): session.kill() and removal from the registry.
\* The killed child reports its exit later, through its own exit handler.
ipcPtyKill(id) ==
  /\ ptySessions[id]
  /\ ptySessions' = [ptySessions EXCEPT ![id] = FALSE]
  /\ helperStdin' = IF ptyBackend[id] = "helper"
                    THEN Append(helperStdin, HelperMsg("kill", id))
                    ELSE helperStdin
  /\ UNCHANGED <<ptyBackend, ptyChild, ptyDataSent, pipeStreams, helperProcess,
                 helperStdout, helperSessions, ptyEvents>>
  /\ UNCHANGED <<controllersRef, ctlPhase, captureVars, wsVars, framingVars, shellSessions, sizeVars, probeVars, tmuxReplies, ipcReturned>>

(***************************************************************************)
(* The IPC calls that answer the renderer: pty:write and                   *)
(* tmux:start-control.  ipcReturned records what the last call returned.   *)
(***************************************************************************)
NoCall == [call |-> "none", id |-> "", registered |-> FALSE, backend |-> "none",
           ok |-> FALSE, error |-> ""]

\* U+0003, the character Ctrl+C sends; one element of a data string.
ETX == "\\u0003"

\* The payloads of pty:write: a short command, Ctrl+C alone, a command after
\* Ctrl+C, and a paste of 524288 letters.
WriteData == {<<"l", "s">>, <<ETX>>, <<ETX, "q">>, <<Block>>}

\* Node's default highWaterMark of a writable stream, in bytes.
WritableHighWaterMark == 16384

\* The characters JSON.stringify puts around the data of a write message:
\* {"type":"write","sessionId":"<36 characters>","data":""} and the newline.
HelperWriteEnvelope == 78

\* stream.Writable.write on a stream with nothing buffered: the chunk is
\* taken, and the result is FALSE once the buffer has reached the mark.
streamWrite(bytes) == bytes < WritableHighWaterMark

\* session.backend, which is "pty" for the helper-backed session too.
SessionBackend(backend) == IF backend = "pipe" THEN "pipe" ELSE "pty"

\* session.write(data) of each backend
sessionWrite(backend, data) ==
  CASE backend = "pty" -> TRUE
    [] backend = "helper" -> streamWrite(StrLen(data) + HelperWriteEnvelope)
    [] backend = "pipe" ->
         LET rest == SelectSeq(data, LAMBDA ch : ch # ETX) IN
         IF Len(rest) = 0 THEN TRUE ELSE streamWrite(StrLen(rest))

\* ipcMain.handle("pty:write")
ipcPtyWrite(id, data) ==
  /\ (ptySessions[id] /\ ptyBackend[id] = "helper") => Len(helperStdin) < MaxHelperQueue
  /\ ipcReturned' = [call |-> "write", id |-> id, registered |-> ptySessions[id],
                     backend |-> ptyBackend[id],
                     ok |-> ptySessions[id] /\ sessionWrite(ptyBackend[id], data),
                     error |-> ""]
  /\ helperStdin' = IF ptySessions[id] /\ ptyBackend[id] = "helper"
                    THEN Append(helperStdin, HelperMsg("write", id))
                    ELSE helperStdin
  /\ helperProcess' = (helperProcess \/ (ptySessions[id] /\ ptyBackend[id] = "helper"))
  /\ UNCHANGED <<ptySessions, ptyBackend, ptyChild, ptyDataSent, pipeStreams,
                 helperStdout, helperSessions, ptyEvents>>
  /\ UNCHANGED <<controllersRef, ctlPhase, captureVars, wsVars, framingVars, shellSessions, sizeVars, probeVars, tmuxReplies>>

S_requiresPty == "tmux control mode requires a PTY backend on this machine."

\* Mutant: the rejected session stays in the registry.
ipcTmuxStartControl_NoDelete(id, backend) ==
  /\ ptyBackend[id] = "none"
  /\ ptyBackend' = [ptyBackend EXCEPT ![id] = backend]
  /\ ptySessions' = [ptySessions EXCEPT ![id] = TRUE]
  /\ ptyChild' = [ptyChild EXCEPT ![id] =
                    CASE backend = "helper" -> "requested"
                      [] backend = "pipe" -> "killed"
                      [] OTHER -> "running"]
  /\ pipeStreams' = [pipeStreams EXCEPT ![id] = (backend = "pipe")]
  /\ helperProcess' = (helperProcess \/ backend = "helper")
  /\ helperStdin' = IF backend = "helper"
                    THEN Append(helperStdin, HelperMsg("create", id))
                    ELSE helperStdin
  /\ ipcReturned' = [call |-> "start", id |-> id, registered |-> TRUE,
                     backend |-> SessionBackend(backend),
                     ok |-> SessionBackend(backend) = "pty",
                     error |-> IF SessionBackend(backend) = "pty" THEN ""
                               ELSE S_requiresPty]
  /\ UNCHANGED <<ptyDataSent, helperStdout, helperSessions, ptyEvents>>
  /\ UNCHANGED <<controllersRef, ctlPhase, captureVars, wsVars, framingVars, shellSessions, sizeVars, probeVars, tmuxReplies>>

\* ipcMain.handle("tmux:start-control"): createPtySession for the tmux
\* command, `backend` being the first backend that did not throw; a session
\* whose backend is not "pty" is killed, deleted, and the call throws.
ipcTmuxStartControl(id, backend) ==
  /\ ptyBackend[id] = "none"
  /\ ptyBackend' = [ptyBackend EXCEPT ![id] = backend]
  /\ ptySessions' = [ptySessions EXCEPT ![id] = (SessionBackend(backend) = "pty")]
  /\ ptyChild' = [ptyChild EXCEPT ![id] =
                    CASE backend = "helper" -> "requested"
                      [] backend = "pipe" -> "killed"
                      [] OTHER -> "running"]
  /\ pipeStreams' = [pipeStreams EXCEPT ![id] = (backend = "pipe")]
  /\ helperProcess' = (helperProcess \/ backend = "helper")
  /\ helperStdin' = IF backend = "helper"
                    THEN Append(helperStdin, HelperMsg("create", id))
                    ELSE helperStdin
  /\ ipcReturned' = [call |-> "start", id |-> id, registered |-> TRUE,
                     backend |-> SessionBackend(backend),
                     ok |-> SessionBackend(backend) = "pty",
                     error |-> IF SessionBackend(backend) = "pty" THEN ""
                               ELSE S_requiresPty]
  /\ UNCHANGED <<ptyDataSent, helperStdout, helperSessions, ptyEvents>>
  /\ UNCHANGED <<controllersRef, ctlPhase, captureVars, wsVars, framingVars, shellSessions, sizeVars, probeVars, tmuxReplies>>


(***************************************************************************)
(* Line framing of the control stream: lib/tmux.ts splitLines and the      *)
(* tmux-control branch of the onPtyData handler.                           *)
(***************************************************************************)
RECURSIVE SplitNewlines(_, _, _, _)
\* text.split(/\r?\n/), from position i on: cur is the piece being read,
\* acc the pieces before it
SplitNewlines(text, i, cur, acc) ==
  IF i > Len(text) THEN Append(acc, cur)
  ELSE IF text[i] = "\r" /\ i < Len(text) /\ text[i + 1] = "\n"
  THEN SplitNewlines(text, i + 2, << >>, Append(acc, cur))
  ELSE IF text[i] = "\n"
  THEN SplitNewlines(text, i + 1, << >>, Append(acc, cur))
  ELSE SplitNewlines(text, i + 1, Append(cur, text[i]), acc)

\* Mutant: the tail kept from the earlier data is not put in front.
splitLines_NoBuffer(buffer, incoming) ==
  LET lines == SplitNewlines(incoming, 1, << >>, << >>) IN
  [rest |-> lines[Len(lines)], lines |-> SubSeq(lines, 1, Len(lines) - 1)]

\* splitLines(buffer, incoming): [rest, lines]
splitLines(buffer, incoming) ==
  LET lines == SplitNewlines(buffer \o incoming, 1, << >>, << >>) IN
  [rest |-> lines[Len(lines)], lines |-> SubSeq(lines, 1, Len(lines) - 1)]

\* The characters of the modelled control data: a letter, CR and LF.  Lines
\* of letters and CRs are of no event type, and handleTmuxControlLine
\* returns for them, and for the empty line, without a change of state.
StreamChars == {"a", "\r", "\n"}

\* payload.data of one pty:data event: one, two or three characters
DataChunks ==
  {<<x>> : x \in StreamChars} \cup {<<x, y>> : x, y \in StreamChars}
    \cup {<<x, y, z>> : x, y, z \in StreamChars}

\* onPtyData for a tmux-control PTY
OnPtyDataTmux(c, data) ==
  /\ ctlPhase[c] = "live"
  /\ tmuxCaptureActiveRef[c] = NoCapture
  /\ Len(streamFed[c]) + Len(data) <= MaxStream
  /\ \E split \in {splitLines(tmuxLineBuffersRef[c], data)} :
       /\ tmuxLineBuffersRef' = [tmuxLineBuffersRef EXCEPT ![c] = split.rest]
       /\ linesFramed' = [linesFramed EXCEPT ![c] = @ \o split.lines]
  /\ streamFed' = [streamFed EXCEPT ![c] = @ \o data]
  /\ UNCHANGED <<controllersRef, ctlPhase, captureVars, ptyVars, wsVars,
                 shellSessions, sizeVars, probeVars, tmuxReplies>>

(***************************************************************************)
(* The tmux probe through a local shell (menu action "tmux-attach").       *)
(* Strings are sequences of characters; a probe token is "probe" and the   *)
(* digits of its number.  The ssh target and port of a result are left     *)
(* out: they are computed from the same context line as the source label.  *)
(***************************************************************************)
S_ptmux == <<"_", "_", "P", "T", "M", "U", "X", "_">>
S_ptmuxBegin == <<"_", "_", "P", "T", "M", "U", "X", "_", "B", "E", "G", "I", "N", "_">>
S_ptmuxEnd == <<"_", "_", "P", "T", "M", "U", "X", "_", "E", "N", "D", "_">>
S_ptmuxCtx == <<"_", "_", "P", "T", "M", "U", "X", "_", "C", "T", "X", "_", "_", ":", ":">>
S_listSessions == <<"t", "m", "u", "x", " ", "l", "i", "s", "t", "-", "s", "e", "s", "s", "i", "o",
    "n", "s">>
S_localMachine == <<"L", "o", "c", "a", "l", " ", "m", "a", "c", "h", "i", "n", "e">>
S_remote == <<"R", "e", "m", "o", "t", "e", " ", "(">>

\* uid("probe").replace(/[^a-zA-Z0-9]/g, "")
probeToken(n) == <<"p", "r", "o", "b", "e">> \o NatToStr(n)

startMarker(token) == S_ptmuxBegin \o token \o <<"_", "_">>
endMarker(token) == S_ptmuxEnd \o token \o <<"_", "_">>

probeCommand(token) ==
  <<"p", "r", "i", "n", "t", "f", " ", "'">> \o startMarker(token) \o <<"\\", "n", "'", ";", " ">> \o
  <<"p", "r", "i", "n", "t", "f", " ", "\"", "_", "_", "P", "T", "M", "U", "X",
    "_", "C", "T", "X", "_", "_", ":", ":", "$", "{", "U", "S", "E", "R", ":", "-",
    "}", ":", ":", "$", "{", "H", "O", "S", "T", "N", "A", "M", "E", ":", "-", "}",
    ":", ":", "$", "{", "S", "S", "H", "_", "C", "O", "N", "N", "E", "C", "T", "I",
    "O", "N", ":", "-", "}", "\\", "n", "\"", ";", " ">> \o
  <<"t", "m", "u", "x", " ", "l", "i", "s", "t", "-", "s", "e", "s", "s", "i", "o",
    "n", "s", " ", "-", "F", " ", "'", "#", "{", "s", "e", "s", "s", "i", "o", "n",
    "_", "n", "a", "m", "e", "}", "'", " ", "2", ">", "/", "d", "e", "v", "/", "n",
    "u", "l", "l", ";", " ">> \o
  <<"p", "r", "i", "n", "t", "f", " ", "'">> \o endMarker(token) \o <<"\\", "n", "'", "\n">>

Includes(s, sub) == IndexOf(s, sub) # 0

\* The character classes of stripAnsiText: [0-9;?], [ -/] and [@-~] (the
\* backquote apart, which no modelled data holds).
CsiParams == {"0", "1", "2", "3", "4", "5", "6", "7", "8", "9", ";", "?"}
CsiIntermediates ==
  {" ", "!", "\"", "#", "$", "%", "&", "'", "(", ")", "*", "+", ",", "-", ".", "/"}
CsiFinals ==
  {"@", "A", "B", "C", "D", "E", "F", "G", "H", "I", "J", "K", "L", "M", "N", "O",
   "P", "Q", "R", "S", "T", "U", "V", "W", "X", "Y", "Z", "[", "\\", "]", "^", "_",
   "a", "b", "c", "d", "e", "f", "g", "h", "i", "j", "k", "l", "m", "n", "o",
   "p", "q", "r", "s", "t", "u", "v", "w", "x", "y", "z", "{", "|", "}", "~"}

\* The index after the longest run of characters of a class from i on.
RECURSIVE SkipClass(_, _, _)
SkipClass(s, i, class) ==
  IF i <= Len(s) /\ s[i] \in class THEN SkipClass(s, i + 1, class) ELSE i

\* text.replace(/\x1b\[[0-9;?]*[ -/]*[@-~]/g, ""): the greedy runs give back
\* no character, since no class shares a character with the next.
RECURSIVE StripCsi(_, _)
StripCsi(s, i) ==
  IF i > Len(s) THEN << >>
  ELSE LET j == SkipClass(s, SkipClass(s, i + 2, CsiParams), CsiIntermediates) IN
       IF s[i] = "ESC" /\ At(s, i + 1, "[") /\ j <= Len(s) /\ s[j] \in CsiFinals
       THEN StripCsi(s, j + 1)
       ELSE <<s[i]>> \o StripCsi(s, i + 1)

\* The index of the BEL or of the ESC of ESC \ that ends an OSC from i on; 0
\* when there is none.  [^\x07]* is greedy: the first BEL ends the sequence,
\* and without a BEL the last ESC \ does.
RECURSIVE OscEnd(_, _)
OscEnd(s, i) ==
  IF i > Len(s) THEN 0
  ELSE IF s[i] = "BEL" THEN i
  ELSE LET later == OscEnd(s, i + 1) IN
       IF later # 0 THEN later
       ELSE IF s[i] = "ESC" /\ At(s, i + 1, "\\") THEN i
       ELSE 0

\* text.replace(/\x1b\][^\x07]*(?:\x07|\x1b\\)/g, "")
RECURSIVE StripOsc(_, _)
StripOsc(s, i) ==
  IF i > Len(s) THEN << >>
  ELSE LET e == OscEnd(s, i + 2) IN
       IF s[i] = "ESC" /\ At(s, i + 1, "]") /\ e # 0
       THEN StripOsc(s, IF s[e] = "BEL" THEN e + 1 ELSE e + 2)
       ELSE <<s[i]>> \o StripOsc(s, i + 1)

stripAnsiText(text) == StripOsc(StripCsi(text, 1), 1)

\* The result a probe resolves with when no session was listed.
NoSessions(token, via) ==
  [token |-> token, via |-> via, sessions |-> << >>, sourceLabel |-> S_localMachine]

\* The loop over pending.lines of consumeShellProbeData: R is the result so
\* far.  collected.split("::") gives the user, the host and SSH_CONNECTION.
RECURSIVE probeResult(_, _)
probeResult(R, lines) ==
  IF Len(lines) = 0 THEN R
  ELSE LET collected == Head(lines)
           fields == Split(collected, <<":", ":">>)
           user == IF Len(fields) >= 2 THEN fields[2] ELSE << >>
           host == IF Len(fields) >= 3 THEN fields[3] ELSE << >>
           sshConnection == IF Len(fields) >= 4 THEN fields[4] ELSE << >>
       IN
       IF Len(collected) = 0 THEN probeResult(R, Tail(lines))
       ELSE IF StartsWith(collected, S_ptmuxCtx)
       THEN probeResult(
              IF Len(sshConnection) > 0 /\ Len(host) > 0
              THEN [R EXCEPT !.sourceLabel =
                      S_remote \o (IF Len(user) > 0 THEN user \o <<"@">> \o host ELSE host)
                        \o <<")">>]
              ELSE R,
              Tail(lines))
       ELSE IF StartsWith(collected, S_ptmux) THEN probeResult(R, Tail(lines))
       ELSE IF Includes(collected, S_listSessions) \/ Includes(collected, S_ptmuxBegin)
       THEN probeResult(R, Tail(lines))
       ELSE probeResult(
              IF \E i \in DOMAIN R.sessions : R.sessions[i] = collected THEN R
              ELSE [R EXCEPT !.sessions = Append(@, collected)],
              Tail(lines))

\* The probe state a handler works on.
ProbeState ==
  [ref |-> shellTmuxProbeRef, timers |-> probeTimers, resolved |-> probeResolved]

InstallProbeState(next) ==
  \E Q \in {next} :
    /\ shellTmuxProbeRef' = Q.ref
    /\ probeTimers' = Q.timers
    /\ probeResolved' = Q.resolved

\* The loop over the complete lines of consumeShellProbeData.
RECURSIVE consumeProbeLines(_, _, _)
consumeProbeLines(Q, ptyId, lines) ==
  IF Len(lines) = 0 THEN Q
  ELSE LET pending == Q.ref[ptyId]
           cleaned == Trim(SelectSeq(stripAnsiText(Head(lines)), LAMBDA ch : ch # "\r"))
       IN
       IF Includes(cleaned, startMarker(pending.token))
       THEN consumeProbeLines([Q EXCEPT !.ref[ptyId].collecting = TRUE], ptyId,
                              Tail(lines))
       ELSE IF ~pending.collecting THEN consumeProbeLines(Q, ptyId, Tail(lines))
       ELSE IF Includes(cleaned, endMarker(pending.token))
       THEN [ref |-> MapDel(Q.ref, {ptyId}),
             timers |-> clearProbeTimeout(Q.timers, pending.token),
             resolved |-> Append(Q.resolved,
                                 probeResult(NoSessions(pending.token, "end"),
                                             pending.lines))]
       ELSE consumeProbeLines([Q EXCEPT !.ref[ptyId].lines = Append(@, cleaned)], ptyId,
                              Tail(lines))

\* consumeShellProbeData: the data joins the probe's buffer, and the lines
\* that are complete are consumed.
consumeShellProbeData(Q, ptyId, data) ==
  IF ~Has(Q.ref, ptyId) THEN Q
  ELSE LET parts == SplitNewlines(Q.ref[ptyId].buffer \o data, 1, << >>, << >>) IN
       consumeProbeLines([Q EXCEPT !.ref[ptyId].buffer = parts[Len(parts)]], ptyId,
                         SubSeq(parts, 1, Len(parts) - 1))

\* probeTmuxFromShellPty: a new token, its 2.2 s timer, the entry of the
\* PTY (in place of the one it had) and the probe command written to the
\* shell, when the session is there.
probeTmuxFromShellPty(ptyId) ==
  LET token == probeToken(probeSeq + 1) IN
  /\ probeSeq' = probeSeq + 1
  /\ probeTimers' = probeTimers \cup {[token |-> token, ptyId |-> ptyId]}
  /\ shellTmuxProbeRef' =
       MapPut(shellTmuxProbeRef, ptyId,
              [token |-> token, collecting |-> FALSE, lines |-> << >>, buffer |-> << >>])
  /\ shellSessions' =
       IF Has(shellSessions, ptyId)
       THEN [shellSessions EXCEPT ![ptyId] = Append(@, probeCommand(token))]
       ELSE shellSessions
  /\ UNCHANGED probeResolved

\* Menu action "tmux-attach" with a healthy PTY backend: openTmuxPicker
\* probes through the shell of the active pane when that pane is local.
OpenTmuxPicker ==
  /\ probeSeq < MaxProbes
  /\ getActiveTab # NoTab
  /\ Has(getActiveTab.panes, getActiveTab.activePaneId)
  /\ LET activePane == getActiveTab.panes[getActiveTab.activePaneId] IN
     /\ activePane.type = "local" /\ activePane.ptyId # 0
     /\ probeTmuxFromShellPty(activePane.ptyId)
  /\ UNCHANGED <<controllersRef, ctlPhase, captureVars, ptyVars, wsVars, framingVars,
                 sizeVars, tmuxReplies>>

\* The 2.2 s timer of a probe fires.
ProbeTimeout(timer) ==
  /\ timer \in probeTimers
  /\ LET fired == probeTimers \ {timer} IN
     IF ~Has(shellTmuxProbeRef, timer.ptyId)
          \/ shellTmuxProbeRef[timer.ptyId].token # timer.token
     THEN /\ probeTimers' = fired
          /\ UNCHANGED <<shellTmuxProbeRef, probeResolved>>
     ELSE /\ probeTimers' = fired
          /\ shellTmuxProbeRef' = MapDel(shellTmuxProbeRef, {timer.ptyId})
          /\ probeResolved' = Append(probeResolved, NoSessions(timer.token, "timeout"))
  /\ UNCHANGED probeSeq
  /\ UNCHANGED <<controllersRef, ctlPhase, captureVars, ptyVars, wsVars, framingVars,
                 shellSessions, sizeVars, tmuxReplies>>

\* The renderer's pty:data handler for kind "shell": data of a PTY without a
\* pane is dropped; other data feeds the probe of the PTY and is written to
\* the pane.
OnPtyDataShell(ptyId, data) ==
  /\ Has(shellSessions, ptyId)
  /\ linesHandled < MaxShellData
  /\ linesHandled' = linesHandled + 1
  /\ IF Has(localPtyToPaneRef, ptyId)
     THEN /\ InstallProbeState(consumeShellProbeData(ProbeState, ptyId, data))
          /\ InstallArtifacts(writeToPane(Artifacts, localPtyToPaneRef[ptyId].paneId,
                                          data, "data"))
     ELSE UNCHANGED <<shellTmuxProbeRef, probeTimers, probeResolved, artifactVars>>
  /\ UNCHANGED probeSeq
  /\ UNCHANGED <<reactVars, bindingVars, bootVars, taskVars, uidTab, uidPane, uidPty,
                 menuActions, historyVars>>
  /\ UNCHANGED <<controllersRef, ctlPhase, captureVars, ptyVars, framingVars,
                 shellSessions, sizeVars, tmuxReplies>>


Init ==
  /\ controllersRef = [c \in CtlIds |-> FALSE]
  /\ ctlPhase = [c \in CtlIds |-> "none"]
  /\ tmuxCaptureQueuesRef = [c \in CtlIds |-> << >>]
  /\ tmuxCaptureActiveRef = [c \in CtlIds |-> NoCapture]
  /\ captureTimers = {}
  /\ ptyWrites = [c \in CtlIds |-> << >>]
  /\ captureSeq = 0
  /\ captureEnqueued = [c \in CtlIds |-> << >>]
  /\ captureResolved = [c \in CtlIds |-> << >>]
  /\ captureSeen = [c \in CtlIds |-> << >>]
  /\ lastResolved = NoResolve
  /\ tabs = << >>
  /\ activeTabId = 0
  /\ tabsRef = << >>
  /\ activeTabIdRef = 0
  /\ pendingTabs = << >>
  /\ pendingActive = << >>
  /\ windowToTab = [c \in CtlIds |-> EmptyMap]
  /\ paneToNative = [c \in CtlIds |-> EmptyMap]
  /\ localPtyToPaneRef = EmptyMap
  /\ tmuxPaneBootstrapRef = EmptyMap
  /\ bootstrapTimers = {}
  /\ tmuxHydrateStartedRef = {}
  /\ paneHistoryRef = EmptyMap
  /\ layoutTimers = {}
  /\ localTabTasks = 1
  /\ splitTasks = << >>
  /\ uidTab = 0
  /\ uidPane = 0
  /\ uidPty = 0
  /\ linesHandled = 0
  /\ menuActions = 0
  /\ socketPath = [c \in CtlIds |-> FALSE]
  /\ tmuxPrefetchedHistoryRef = [c \in CtlIds |-> EmptyMap]
  /\ tmuxPrefetchInFlightRef = [c \in CtlIds |-> {}]
  /\ prefetchTasks = {}
  /\ hydrateTasks = {}
  /\ writerLog = EmptyMap
  /\ flushLog = EmptyMap
  /\ outputArrived = << >>
  /\ ptyKills = << >>
  /\ shellSessions = EmptyMap
  /\ shellTmuxProbeRef = EmptyMap
  /\ probeTimers = {}
  /\ probeResolved = << >>
  /\ probeSeq = 0
  /\ tmuxReplies = [c \in CtlIds |-> [closed |-> 0, open |-> FALSE]]
  /\ paneGridSizeRef = EmptyMap
  /\ tmuxPaneSizeRef = EmptyMap
  /\ tmuxClientSizeRef = EmptyMap
  /\ ptyResizes = [c \in CtlIds |-> << >>]
  /\ tabsExpected = {}
  /\ reportedIn = [c \in CtlIds |-> EmptyMap]
  /\ ptySessions = [id \in PtyIds |-> FALSE]
  /\ ptyBackend = [id \in PtyIds |-> "none"]
  /\ ptyChild = [id \in PtyIds |-> "none"]
  /\ ptyDataSent = [id \in PtyIds |-> 0]
  /\ pipeStreams = [id \in PtyIds |-> FALSE]
  /\ helperProcess = FALSE
  /\ helperStdin = << >>
  /\ helperStdout = << >>
  /\ helperSessions = {}
  /\ ptyEvents = [id \in PtyIds |-> << >>]
  /\ ipcReturned = NoCall
  /\ tmuxLineBuffersRef = [c \in CtlIds |-> << >>]
  /\ streamFed = [c \in CtlIds |-> << >>]
  /\ linesFramed = [c \in CtlIds |-> << >>]

CaptureNext ==
  \/ \E c \in CtlIds : StartTmuxControl(c)
  \/ \E c \in CtlIds, p \in TmuxPaneIds : captureTmuxPaneInBand(c, p)
  \/ \E c \in CtlIds, id \in 1..MaxCaptures : CaptureTimeout(c, id)
  \/ \E c \in CtlIds, line \in CaptureLines, eager \in BOOLEAN :
        OnTmuxControlLine(c, line, eager)
  \/ \E c \in CtlIds, eager \in BOOLEAN : OnPtyExitTmux(c, eager)

SpecCapture == Init /\ [][CaptureNext]_vars

WsNext ==
  \/ MenuNewTab
  \/ \E created \in BOOLEAN : CreateLocalTabResolved(created)
  \/ \E direction \in {"horizontal"} : MenuSplit(direction)
  \/ \E created \in BOOLEAN : SplitResolved(created)
  \/ MenuClosePane
  \/ Render
  \/ \E c \in CtlIds : StartTmuxControl(c)
  \/ \E c \in CtlIds, line \in WorkspaceLines, eager \in BOOLEAN :
        OnTmuxControlLine(c, line, eager)
  \/ \E c \in CtlIds, eager \in BOOLEAN : OnPtyExitTmux(c, eager)

SpecWs == Init /\ [][WsNext]_vars

BootNext ==
  \/ \E c \in CtlIds : StartTmuxControl(c)
  \/ \E c \in CtlIds, line \in BootLines, eager \in BOOLEAN :
        OnTmuxControlLine(c, line, eager)
  \/ Render
  \/ \E paneId \in bootstrapTimers : BootstrapFlushTimer(paneId)
  \/ \E timer \in layoutTimers : LayoutTimerFire(timer[1], timer[2])
  \/ \E task \in hydrateTasks : HydrateRetry(task)
  \/ \E task \in hydrateTasks, failed \in BOOLEAN, captured \in CapturedTexts :
        HydrateCaptured(task, failed, captured)
  \/ \E task \in prefetchTasks : PrefetchRetry(task)
  \/ \E task \in prefetchTasks, failed \in BOOLEAN, captured \in CapturedTexts :
        PrefetchCaptured(task, failed, captured)
  \/ \E c \in CtlIds, eager \in BOOLEAN : OnPtyExitTmux(c, eager)

SpecBoot == Init /\ [][BootNext]_vars

PtyNext ==
  \/ \E id \in PtyIds, backend \in {"pty", "helper", "pipe"} :
        createPtySession(id, backend)
  \/ \E id \in PtyIds : PtyInstanceData(id)
  \/ \E id \in PtyIds : PtyInstanceExit(id)
  \/ \E id \in PtyIds : PipeChildOutput(id)
  \/ \E id \in PtyIds : PipeChildExit(id)
  \/ \E id \in PtyIds : PipeChildError(id)
  \/ \E id \in PtyIds : PipeStreamsClose(id)
  \/ \E spawned \in BOOLEAN : HelperHandleMessage(spawned)
  \/ \E id \in PtyIds : HelperInstanceData(id)
  \/ \E id \in PtyIds : HelperInstanceExit(id)
  \/ HelperStdoutLine
  \/ \E id \in PtyIds : ipcPtyKill(id)

SpecPty == Init /\ [][PtyNext]_vars

\* The session manager as the renderer's IPC calls see it; the output of the
\* children is left out, no call reading it.
IpcNext ==
  \/ \E id \in PtyIds, backend \in {"pty", "helper", "pipe"} :
        createPtySession(id, backend)
  \/ \E id \in PtyIds, backend \in {"pty", "helper", "pipe"} :
        ipcTmuxStartControl(id, backend)
  \/ \E id \in PtyIds, data \in WriteData : ipcPtyWrite(id, data)
  \/ \E id \in PtyIds : ipcPtyKill(id)
  \/ \E id \in PtyIds : PtyInstanceExit(id)
  \/ \E id \in PtyIds : PipeChildExit(id)
  \/ \E id \in PtyIds : PipeChildError(id)
  \/ \E id \in PtyIds : PipeStreamsClose(id)
  \/ \E spawned \in BOOLEAN : HelperHandleMessage(spawned)
  \/ \E id \in PtyIds : HelperInstanceExit(id)
  \/ HelperStdoutLine

SpecIpc == Init /\ [][IpcNext]_vars


(***************************************************************************)
(*                              CLAIMS                                     *)
(***************************************************************************)
SeqToSet(s) == {s[i] : i \in DOMAIN s}
IsPrefix(s, t) == Len(s) <= Len(t) /\ SubSeq(t, 1, Len(s)) = s
QueuedIds(c) == {tmuxCaptureQueuesRef[c][i].id : i \in DOMAIN tmuxCaptureQueuesRef[c]}
ActiveIds(c) ==
  IF tmuxCaptureActiveRef[c] = NoCapture THEN {} ELSE {tmuxCaptureActiveRef[c].id}
WrittenCount(c, id) ==
  Cardinality({i \in DOMAIN ptyWrites[c] : ptyWrites[c][i].req = id})
OutstandingIds(c) == SeqToSet(captureEnqueued[c]) \ SeqToSet(captureResolved[c])
InFlightIds(c) == {id \in OutstandingIds(c) : WrittenCount(c, id) > 0}

\* C1: on every controller the resolve callbacks fire in enqueue order 1..n:
\* the sequence of resolved requests is always a prefix of the sequence of
\* enqueued requests, so R(i+1) is never resolved before R(i).
C1_ResolveFifo ==
  \A c \in CtlIds : IsPrefix(captureResolved[c], captureEnqueued[c])

\* C1 witness: three requests were enqueued on c1 and all three resolved, the
\* last one by its 5 s timer.
C1_Witness ==
  /\ Len(captureResolved["c1"]) = 3
  /\ lastResolved.via = "timeout"

\* C2: every registered controller has at most one in-flight request (its
\* command written, not yet resolved), that request is the active one, and
\* every other outstanding request is in the queue and not active.
C2_OneInFlight ==
  \A c \in CtlIds : controllersRef[c] =>
    /\ Cardinality(InFlightIds(c)) <= 1
    /\ InFlightIds(c) = ActiveIds(c)
    /\ OutstandingIds(c) \ ActiveIds(c) = QueuedIds(c)
    /\ ActiveIds(c) \cap QueuedIds(c) = {}
    /\ Cardinality(QueuedIds(c)) = Len(tmuxCaptureQueuesRef[c])

\* C2 witness: one request is active while two others wait in the queue.
C2_Witness ==
  /\ tmuxCaptureActiveRef["c1"] # NoCapture
  /\ Len(tmuxCaptureQueuesRef["c1"]) = 2

\* C3: the command of every request is written exactly once, when the request
\* becomes active, and a request answered by a %begin ... %end block resolves
\* with exactly the non-% lines that arrived between them, joined by "\n".
C3_ExactBlock ==
  /\ \A c \in CtlIds : \A id \in SeqToSet(captureEnqueued[c]) :
        WrittenCount(c, id) = IF id \in QueuedIds(c) THEN 0 ELSE 1
  /\ (lastResolved.via = "end" /\ lastResolved.began)
        => lastResolved.text = Join(lastResolved.arrived, S_nl)

ExitCount(log) == Cardinality({i \in DOMAIN log : log[i] = "exit"})
InFlightFor(id) ==
  \/ \E i \in DOMAIN helperStdin : helperStdin[i].sessionId = id
  \/ \E i \in DOMAIN helperStdout : helperStdout[i].sessionId = id
PtyFinished(id) ==
  /\ ptyChild[id] \in {"exited", "failed", "errored"}
  /\ ~pipeStreams[id]
  /\ ~InFlightFor(id)

\* C5: for every session of every backend the renderer receives data events
\* followed by exactly one exit event: an exit event is always the last event
\* of the session, and a session whose child is gone and whose messages have
\* all been handled has received its exit event.
C5_DataThenOneExit ==
  \A id \in PtyIds :
    /\ \A i \in DOMAIN ptyEvents[id] :
          ptyEvents[id][i] = "exit" => i = Len(ptyEvents[id])
    /\ PtyFinished(id) => ExitCount(ptyEvents[id]) = 1

\* The queued setTabs and setActiveTabId calls have all been rendered.
Settled == Len(pendingTabs) = 0 /\ Len(pendingActive) = 0

\* C6: once the handled events are rendered, for every registered controller
\* every binding of paneToNative names a tab id that is a value of
\* windowToTab, every tab id of windowToTab has a tab whose tmuxWindowId is
\* the mapped window, and every pane of a tab of the controller is a tmux pane
\* with the controller's controlPtyId.
C6_BindingsConsistent ==
  Settled =>
    \A c \in CtlIds : controllersRef[c] =>
      /\ \A tp \in DOMAIN paneToNative[c] :
            paneToNative[c][tp].tabId \in Range(windowToTab[c])
      /\ \A w \in DOMAIN windowToTab[c] :
            \E i \in DOMAIN tabs :
              tabs[i].id = windowToTab[c][w] /\ tabs[i].tmuxWindowId = w
      /\ \A i \in DOMAIN tabs : tabs[i].controlPtyId = c =>
            \A q \in DOMAIN tabs[i].panes :
              tabs[i].panes[q].type = "tmux" /\ tabs[i].panes[q].controlPtyId = c

\* C7: in every reachable state, for every tab the pane ids at the leaves of
\* tab.layout are exactly the keys of tab.panes.
C7_LayoutMatchesPanes ==
  \A i \in DOMAIN tabs :
    SeqToSet(collectPaneIds(tabs[i].layout)) = DOMAIN tabs[i].panes

\* C7 witness: a local tab that was split into two panes stands next to a
\* tmux tab whose layout holds two panes.
C7_Witness ==
  /\ \E i \in DOMAIN tabs :
        tabs[i].controlPtyId = "" /\ Cardinality(DOMAIN tabs[i].panes) = 2
  /\ \E i \in DOMAIN tabs :
        tabs[i].controlPtyId = "c1" /\ Cardinality(DOMAIN tabs[i].panes) = 2

\* C8: once the handled events are rendered, the workspace holds exactly the
\* tabs that were created and not closed: a %window-close removes the tab of
\* its window and neither loses nor undoes what other events did, whatever
\* tabsRef held when the line was handled.
C8_CloseKeepsOthers ==
  Settled => TabIds(tabs) = tabsExpected

\* C9: once the handled events are rendered, every tmux pane that a layout
\* reported by tmux lists for a window still bound to a tab is bound to a
\* native pane of that tab, so its %output goes there; %window-add for another
\* window does not rebind it.
C9_OutputToOwnWindow ==
  Settled =>
    \A c \in CtlIds : controllersRef[c] =>
      \A tp \in DOMAIN reportedIn[c] :
        Has(windowToTab[c], reportedIn[c][tp]) =>
          /\ Has(paneToNative[c], tp)
          /\ paneToNative[c][tp].tabId = windowToTab[c][reportedIn[c][tp]]

\* C4: for every native pane the bootstrap is resolved once, by a flush that
\* finds the bootstrap entry, and the pane writer never receives captured
\* history in addition to flushed bootstrap chunks.
C4_OneBootstrapDelivery ==
  \A q \in DOMAIN flushLog :
    LET log == flushLog[q] IN
    /\ Cardinality({i \in DOMAIN log : log[i].hadBootstrap}) <= 1
    /\ ~(\E i, j \in DOMAIN log :
           /\ log[i].delivered = "chunks" /\ log[i].chunks > 0
           /\ log[j].delivered = "history")

ArrivalIndex(data) == CHOOSE i \in DOMAIN outputArrived : outputArrived[i] = data
OutputWrites(q) == SelectSeq(writerLog[q], LAMBDA e : e.via \in {"stream", "flush"})

\* C10: for every native pane, the %output payloads written to the pane were
\* written in the order their lines arrived, whether they were streamed or
\* flushed from the bootstrap buffer.
C10_OutputOrder ==
  \A q \in DOMAIN writerLog :
    LET written == OutputWrites(q) IN
    \A i, j \in DOMAIN written :
      i < j => ArrivalIndex(written[i].data) < ArrivalIndex(written[j].data)

\* C10 witness: a pane received two %output payloads, the first of them out
\* of the bootstrap buffer.
C10_Witness ==
  \E q \in DOMAIN writerLog :
    /\ Len(OutputWrites(q)) = 2
    /\ OutputWrites(q)[1].via = "flush"

\* The native pane ids of the tabs the workspace holds.
PaneIdsOf(ts) == UNION {DOMAIN ts[i].panes : i \in DOMAIN ts}

\* C11: once the exit of a tmux-control PTY is handled and rendered, no tab
\* has that controlPtyId, the controller entry, the prefetch cache, the active
\* capture and the capture queue of the session are gone, and no bootstrap
\* buffer, flush timer, hydration mark or history is left for a pane that no
\* tab holds.
C11_ExitCleansUp ==
  \A c \in CtlIds : (ctlPhase[c] = "exited" /\ Settled) =>
    /\ \A i \in DOMAIN tabs : tabs[i].controlPtyId # c
    /\ ~controllersRef[c]
    /\ tmuxPrefetchedHistoryRef[c] = EmptyMap
    /\ tmuxCaptureActiveRef[c] = NoCapture
    /\ tmuxCaptureQueuesRef[c] = << >>
    /\ DOMAIN tmuxPaneBootstrapRef \subseteq PaneIdsOf(tabs)
    /\ bootstrapTimers \subseteq PaneIdsOf(tabs)
    /\ tmuxHydrateStartedRef \subseteq PaneIdsOf(tabs)
    /\ DOMAIN paneHistoryRef \subseteq PaneIdsOf(tabs)

(***************************************************************************)
(* The events that can empty the workspace (%window-close, the exit of the *)
(* control PTY, the user closing a local pane), with every shell spawn     *)
(* succeeding, and with the renders and the createPty completions that are *)
(* due eventually happening.                                               *)
(***************************************************************************)
ClosingLines == {WL_boot1, WL_close1}

WsLiveNext ==
  \/ CreateLocalTabResolved(TRUE)
  \/ MenuClosePane
  \/ Render
  \/ \E c \in CtlIds : StartTmuxControl(c)
  \/ \E c \in CtlIds, line \in ClosingLines, eager \in BOOLEAN :
        OnTmuxControlLine(c, line, eager)
  \/ \E c \in CtlIds, eager \in BOOLEAN : OnPtyExitTmux(c, eager)

SpecWsLive ==
  /\ Init
  /\ [][WsLiveNext]_vars
  /\ WF_vars(Render)
  /\ WF_vars(CreateLocalTabResolved(TRUE))

\* C12: whenever the tab list is empty after a tab id was handed out (a tab
\* was closed, or is still being created), the workspace eventually holds a
\* tab again: it never stays empty.
C12_NeverStaysEmpty ==
  (Len(tabs) = 0 /\ uidTab > 0) ~> (Len(tabs) > 0)

\* C13: pty:write returns false only for a session id that is not in the
\* registry; for a registered session of any backend it returns true.
C13_WriteFalseOnlyUnregistered ==
  (ipcReturned.call = "write" /\ ipcReturned.registered) => ipcReturned.ok

\* C14: tmux:start-control returns only sessions whose backend is "pty"; when
\* the backend that was selected is the pipe, the call fails with the
\* PTY-required message, the spawned child is killed and the id is not in
\* the registry.
C14_StartControlRequiresPty ==
  ipcReturned.call = "start" =>
    /\ ipcReturned.ok => /\ ptyBackend[ipcReturned.id] \in {"pty", "helper"}
                         /\ ipcReturned.backend = "pty"
    /\ ~ipcReturned.ok => /\ ptyBackend[ipcReturned.id] = "pipe"
                          /\ ipcReturned.error = S_requiresPty
                          /\ ptyChild[ipcReturned.id] \in {"killed", "exited"}
                          /\ ~ptySessions[ipcReturned.id]

C14_Witness ==
  /\ ipcReturned.call = "start"
  /\ ~ipcReturned.ok
  /\ ptyBackend[ipcReturned.id] = "pipe"
  /\ \E id \in PtyIds : ptySessions[id]

(***************************************************************************)
(* The layout functions applied to the layout of one tab: split and remove *)
(* with pane ids from uid("pane"), the divider drag, and a tmux layout     *)
(* merged over the previous one.                                           *)
(***************************************************************************)
Directions == {"horizontal", "vertical"}

\* nextRatio of the divider drag: inside the split, left of it, right of it,
\* and NaN.
DragRatios == {<<3, 10>>, <<1, 20>>, <<6, 5>>, NaN}

\* data-path of a divider: the root, its children, and a path with a
\* character that is neither L nor R.
DragPaths == {<< >>, <<"L">>, <<"R">>, <<"R", "L">>, <<"X">>}

TmuxLayouts == {Lay_w1b, Lay_narrow}

LayoutTab(layout) == [NoTab EXCEPT !.id = 1, !.layout = layout]

LayoutFrame ==
  UNCHANGED <<controllersRef, ctlPhase, captureVars, ptyVars, framingVars, shellSessions, sizeVars, probeVars, tmuxReplies, activeTabId,
              tabsRef, activeTabIdRef, pendingTabs, pendingActive,
              bindingVars, artifactVars, bootVars, taskVars, historyVars,
              uidTab, uidPty, linesHandled, menuActions>>

\* singlePaneLayout(uid("pane")) for a new tab
LayoutSingle ==
  /\ Len(tabs) = 0
  /\ uidPane < MaxLayoutPanes
  /\ uidPane' = uidPane + 1
  /\ tabs' = <<LayoutTab(singlePaneLayout(uidPane + 1))>>
  /\ LayoutFrame

LayoutSplit(targetPaneId, direction) ==
  /\ Len(tabs) = 1
  /\ uidPane < MaxLayoutPanes
  /\ uidPane' = uidPane + 1
  /\ tabs' = <<LayoutTab(splitLayoutAtPane(tabs[1].layout, targetPaneId,
                                           direction, uidPane + 1))>>
  /\ LayoutFrame

\* removePaneFromLayout; the tab goes when the result is null
LayoutRemove(paneId) ==
  /\ Len(tabs) = 1
  /\ \E next \in {removePaneFromLayout(tabs[1].layout, paneId)} :
       tabs' = IF next = NullNode THEN << >> ELSE <<LayoutTab(next)>>
  /\ UNCHANGED uidPane
  /\ LayoutFrame

LayoutDrag(path, ratio) ==
  /\ Len(tabs) = 1
  /\ tabs' = <<LayoutTab(updateSplitRatioAtPath(tabs[1].layout, path, ratio))>>
  /\ UNCHANGED uidPane
  /\ LayoutFrame

\* parseTmuxLayout with a mapPane that binds every pane anew, merged by
\* preserveSplitRatios as applyTmuxLayout does
LayoutMerge(layout) ==
  /\ Len(tabs) = 1
  /\ \E mapped \in {parseTmuxLayout(layout, RenderState, "c1", 1)} :
       /\ mapped.R.uidPane <= MaxLayoutPanes
       /\ uidPane' = mapped.R.uidPane
       /\ tabs' = <<LayoutTab(preserveSplitRatios(tabs[1].layout, mapped.layout))>>
  /\ LayoutFrame

LayoutNext ==
  \/ LayoutSingle
  \/ \E targetPaneId \in 1..MaxLayoutPanes, direction \in Directions :
        LayoutSplit(targetPaneId, direction)
  \/ \E paneId \in 1..MaxLayoutPanes : LayoutRemove(paneId)
  \/ \E path \in DragPaths, ratio \in DragRatios : LayoutDrag(path, ratio)
  \/ \E layout \in TmuxLayouts : LayoutMerge(layout)

SpecLayout == Init /\ [][LayoutNext]_vars

RECURSIVE SplitsOf(_)
SplitsOf(layout) ==
  IF layout.type # "split" THEN {}
  ELSE {layout} \cup SplitsOf(layout.first) \cup SplitsOf(layout.second)

NoDuplicates(seq) == \A i, j \in DOMAIN seq : seq[i] = seq[j] => i = j

InRange(r) == r[2] > 0 /\ 10 * r[1] >= r[2] /\ 10 * r[1] <= 9 * r[2]

\* C15: a layout made from a single pane by splits and removals lists no
\* pane id twice, and each of its splits has two children that are nodes.
C15_NoDuplicatePanes ==
  \A i \in DOMAIN tabs :
    /\ \A split \in SplitsOf(tabs[i].layout) :
         /\ split.first.type \in {"pane", "split"}
         /\ split.second.type \in {"pane", "split"}
    /\ NoDuplicates(collectPaneIds(tabs[i].layout))

\* Panes 1, 3 and 4 with pane 2 gone: splits and a removal, no merge.
C15_Witness ==
  /\ Len(tabs) = 1
  /\ LET ids == collectPaneIds(tabs[1].layout) IN
     /\ Len(ids) = 3
     /\ SeqToSet(ids) = {1, 3, 4}

\* C16: every split of a layout has a ratio from 0.1 to 0.9, after a split,
\* a removal, a divider drag and a merged tmux layout.
C16_RatiosClamped ==
  \A i \in DOMAIN tabs : \A split \in SplitsOf(tabs[i].layout) : InRange(split.ratio)

\* A dragged ratio clamped to 0.9 above a split clamped to 0.1.
C16_Witness ==
  /\ Len(tabs) = 1
  /\ tabs[1].layout.type = "split"
  /\ tabs[1].layout.ratio = <<9, 10>>
  /\ \E split \in SplitsOf(tabs[1].layout) : split.ratio = <<1, 10>>

\* C17: preserveSplitRatios of a layout with itself is that layout.
C17_PreserveIdempotent ==
  \A i \in DOMAIN tabs :
    preserveSplitRatios(tabs[i].layout, tabs[i].layout) = tabs[i].layout

\* A nested layout whose splits carry other ratios than that of a new split.
C17_Witness ==
  /\ Len(tabs) = 1
  /\ \E a \in SplitsOf(tabs[1].layout) :
       /\ a # tabs[1].layout
       /\ a.ratio # Half
       /\ tabs[1].layout.ratio \notin {Half, a.ratio}

(***************************************************************************)
(* A tmux window whose layout is reported again and again with the same    *)
(* panes, while the user drags its divider.                                *)
(***************************************************************************)
RECURSIVE NodeAt(_, _)
\* The node a divider's data-path leads to, NullNode if there is none.
NodeAt(layout, path) ==
  IF Len(path) = 0 THEN layout
  ELSE IF layout.type # "split" THEN NullNode
  ELSE IF Head(path) = "L" THEN NodeAt(layout.first, Tail(path))
  ELSE IF Head(path) = "R" THEN NodeAt(layout.second, Tail(path))
  ELSE NullNode

\* handleMove of the divider drag: setTabs with updateSplitRatioAtPath.  The
\* divider is one of a rendered tab.
DragDivider(tabId, path, ratio, eager) ==
  /\ linesHandled + menuActions < MaxEvents
  /\ menuActions' = menuActions + 1
  /\ eager => CanRunEagerly
  /\ \E i \in DOMAIN tabs :
       tabs[i].id = tabId /\ NodeAt(tabs[i].layout, path).type = "split"
  /\ \E W1 \in {setTabs(WsState, [Upd("ratio") EXCEPT !.tabId = tabId,
                                  !.path = path, !.ratio = ratio], eager)} :
       pendingTabs' = W1.pt
  /\ UNCHANGED <<tabs, activeTabId, tabsRef, activeTabIdRef, pendingActive,
                 bindingVars, artifactVars, bootVars, taskVars, uidTab, uidPane,
                 uidPty, linesHandled, historyVars>>
  /\ UNCHANGED <<controllersRef, ctlPhase, captureVars, ptyVars, framingVars, shellSessions, sizeVars, probeVars, tmuxReplies>>

RelayoutLines == {WL_boot1b, WL_layout1, WL_layout1c}

RelayoutNext ==
  \/ \E c \in CtlIds : StartTmuxControl(c)
  \/ \E c \in CtlIds, line \in RelayoutLines, eager \in BOOLEAN :
        OnTmuxControlLine(c, line, eager)
  \/ \E tabId \in 1..MaxEvents, ratio \in DragRatios, eager \in BOOLEAN :
        DragDivider(tabId, << >>, ratio, eager)
  \/ \E paneId \in bootstrapTimers : BootstrapFlushTimer(paneId)
  \/ Render

SpecRelayout == Init /\ [][RelayoutNext]_vars

\* The ratios a drag can leave in a split.
DragClamped == {clampRatio(r) : r \in DragRatios}

\* The native panes bound to %0 and %1 of the controller, side by side.
ShowsBothPanes(layout, binding, tabId) ==
  /\ Has(binding, S_pane0) /\ Has(binding, S_pane1)
  /\ binding[S_pane0].tabId = tabId /\ binding[S_pane1].tabId = tabId
  /\ layout.type = "split"
  /\ layout.direction = "horizontal"
  /\ layout.first = singlePaneLayout(binding[S_pane0].paneId)
  /\ layout.second = singlePaneLayout(binding[S_pane1].paneId)

WindowTab(c, ts) ==
  IF Has(windowToTab[c], Win1) THEN TabIndex(ts, windowToTab[c][Win1]) ELSE 0

\* C18: once the tab of a tmux window shows the panes %0 and %1, a layout of
\* the same structure and panes reported again leaves the tab with the same
\* native panes and the ratio it had, a ratio set by a drag included; only a
\* drag changes the ratio, no pane id is handed out and no bootstrap buffer
\* is created.
C18_RelayoutKeepsRatio ==
  [][\A c \in CtlIds :
       LET i == WindowTab(c, tabs)
           j == WindowTab(c, tabs')
       IN (i > 0 /\ ShowsBothPanes(tabs[i].layout, paneToNative[c], tabs[i].id)) =>
            /\ j > 0
            /\ paneToNative'[c] = paneToNative[c]
            /\ ShowsBothPanes(tabs'[j].layout, paneToNative[c], tabs[i].id)
            /\ (tabs'[j].layout.ratio # tabs[i].layout.ratio =>
                  tabs'[j].layout.ratio \in DragClamped)
            /\ uidPane' = uidPane
            /\ DOMAIN tmuxPaneBootstrapRef' \subseteq DOMAIN tmuxPaneBootstrapRef
    ]_vars

\* The tab shows a dragged ratio, the bootstrap buffers are flushed, and a
\* layout of the same panes with another divider position is about to be
\* applied.
C18_Witness ==
  \E c \in CtlIds :
    LET i == WindowTab(c, tabs) IN
    /\ i > 0
    /\ ShowsBothPanes(tabs[i].layout, paneToNative[c], tabs[i].id)
    /\ tabs[i].layout.ratio = <<3, 10>>
    /\ DOMAIN tmuxPaneBootstrapRef = {}
    /\ Len(pendingTabs) = 1
    /\ pendingTabs[1].k = "layout"
    /\ pendingTabs[1].layout = Lay_w1c

\* C19: a request resolved by %error resolves with the empty string,
\* whatever was collected after %begin; it is no longer the active request,
\* and a registered controller with a queued request has an active one.
C19_ErrorResolvesEmpty ==
  /\ lastResolved.via = "error" => lastResolved.text = << >>
  /\ \A c \in CtlIds :
       /\ tmuxCaptureActiveRef[c] # NoCapture =>
            tmuxCaptureActiveRef[c].id \notin SeqToSet(captureResolved[c])
       /\ (controllersRef[c] /\ tmuxCaptureActiveRef[c] = NoCapture) =>
            Len(tmuxCaptureQueuesRef[c]) = 0

\* The capture queue with its 5 s timers firing when they are due.
SpecCaptureLive ==
  /\ Init
  /\ [][CaptureNext]_vars
  /\ \A c \in CtlIds : \A id \in 1..MaxCaptures : WF_vars(CaptureTimeout(c, id))

\* C20: a request that the timer resolves gets the empty string; no request
\* is resolved twice; and every request enqueued is resolved in the end, by
\* its block or by its timer, unless the control PTY exits: a request that
\* times out does not hold back the requests behind it.
C20_TimeoutUnblocks ==
  /\ [](lastResolved.via = "timeout" => lastResolved.text = << >>)
  /\ [](\A c \in CtlIds : NoDuplicates(captureResolved[c]))
  /\ \A c \in CtlIds : \A id \in 1..MaxCaptures :
       (id \in SeqToSet(captureEnqueued[c])) ~>
         (id \in SeqToSet(captureResolved[c]) \/ ~controllersRef[c])

\* A request timed out after its %begin and a data line, and the request
\* behind it is the active one.
C20_Witness ==
  /\ lastResolved.via = "timeout"
  /\ lastResolved.began
  /\ Len(lastResolved.arrived) > 0
  /\ \E c \in CtlIds :
       /\ controllersRef[c]
       /\ tmuxCaptureActiveRef[c] # NoCapture
       /\ tmuxCaptureActiveRef[c].id > lastResolved.id

(***************************************************************************)
(* The bootstrap of tmux panes with the steps of the hydration chain       *)
(* taken when they are due: the render, the setTimeout(0) of               *)
(* applyTmuxLayout, the retry timers and the settling of captureTmuxPane.  *)
(* The 15 s flush timer is left without fairness: it is the fallback, not  *)
(* a step of the chain.                                                    *)
(***************************************************************************)
BootPaneIds == 1..(2 * MaxEvents)

SpecBootLive ==
  /\ Init
  /\ [][BootNext]_vars
  /\ WF_vars(Render)
  /\ WF_vars(\E timer \in layoutTimers : LayoutTimerFire(timer[1], timer[2]))
  /\ WF_vars(\E task \in hydrateTasks : HydrateRetry(task))
  /\ WF_vars(\E task \in hydrateTasks, failed \in BOOLEAN, captured \in CapturedTexts :
               HydrateCaptured(task, failed, captured))

FramingNext ==
  \/ \E c \in CtlIds : StartTmuxControl(c)
  \/ \E c \in CtlIds, data \in DataChunks : OnPtyDataTmux(c, data)

SpecFraming == Init /\ [][FramingNext]_vars

\* C22: whatever the chunks were, the lines passed on are the pieces of the
\* whole stream split at \r?\n, the last piece excepted, which is the line
\* buffer.
C22_FramingIgnoresChunks ==
  \A c \in CtlIds :
    LET whole == SplitNewlines(streamFed[c], 1, << >>, << >>) IN
    /\ linesFramed[c] = SubSeq(whole, 1, Len(whole) - 1)
    /\ tmuxLineBuffersRef[c] = whole[Len(whole)]

\* A line ended by CR LF and an unterminated tail after it, reached with
\* every chunking of the four characters, the one that ends a chunk between
\* CR and LF among them.
C22_Witness ==
  \E c \in CtlIds :
    /\ streamFed[c] = <<"a", "\r", "\n", "a">>
    /\ linesFramed[c] = <<<<"a">>>>
    /\ tmuxLineBuffersRef[c] = <<"a">>

(***************************************************************************)
(* Retries of the hydration chain.                                         *)
(***************************************************************************)

\* The captures a chain has behind it, the pending one included: every step
\* of the chain adds one to attempt, a socket wait also one to waits.
CaptureNumber(task) == task.attempt - task.waits

\* C23: a hydration chain waits for the socket path at most 10 times and
\* captures at most 4 times, and an empty or failed capture that is not yet
\* the chain's 4th is followed by a retry, however many socket waits the
\* chain has behind it.
C23_CaptureRetriesIndependent ==
  [][\A task \in hydrateTasks :
       /\ task.waits <= 10
       /\ CaptureNumber(task) <= 4
       /\ (/\ task.at = "capture"
           /\ CaptureNumber(task) < 4
           /\ \E failed \in BOOLEAN, captured \in CapturedTexts :
                /\ failed \/ Len(captured) = 0
                /\ HydrateCaptured(task, failed, captured))
          => \E next \in hydrateTasks' :
               /\ next.paneId = task.paneId
               /\ next.at = "retry"
               /\ next.attempt = task.attempt + 1]_vars

(***************************************************************************)
(* The bootstrap buffer under %output.                                     *)
(***************************************************************************)

BufferNext ==
  \/ \E c \in CtlIds : StartTmuxControl(c)
  \/ \E c \in CtlIds, line \in BufferLines, eager \in BOOLEAN :
        OnTmuxControlLine(c, line, eager)
  \/ Render
  \/ \E paneId \in bootstrapTimers : BootstrapFlushTimer(paneId)
  \/ \E timer \in layoutTimers : LayoutTimerFire(timer[1], timer[2])
  \/ \E task \in hydrateTasks : HydrateRetry(task)
  \/ \E task \in hydrateTasks, failed \in BOOLEAN, captured \in CapturedTexts :
        HydrateCaptured(task, failed, captured)

SpecBuffer == Init /\ [][BufferNext]_vars

RECURSIVE SumLengths(_)
SumLengths(chunks) ==
  IF Len(chunks) = 0 THEN 0 ELSE StrLen(Head(chunks)) + SumLengths(Tail(chunks))

IsSuffix(s, t) ==
  /\ Len(s) <= Len(t)
  /\ SubSeq(t, Len(t) - Len(s) + 1, Len(t)) = s

\* C24: a bootstrap buffer that exists holds less than 512 KiB, a buffer that
\* reaches the limit being flushed by the %output that fills it; its
\* totalBytes is the sum of the lengths of its chunks; and its chunks are the
\* newest of the chunks that arrived for the pane, the oldest having been
\* dropped first.
C24_BootstrapBufferBounded ==
  \A paneId \in DOMAIN tmuxPaneBootstrapRef :
    LET bootstrap == tmuxPaneBootstrapRef[paneId] IN
    /\ bootstrap.totalBytes < MAX_TMUX_BOOTSTRAP_BUFFER_BYTES
    /\ bootstrap.totalBytes = SumLengths(bootstrap.chunks)
    /\ IsSuffix(bootstrap.chunks, outputArrived)

\* Two chunks of 300000 characters arrived and the buffer holds the second.
C24_Witness ==
  /\ outputArrived = <<<<ChunkY>>, <<ChunkZ>>>>
  /\ \E paneId \in DOMAIN tmuxPaneBootstrapRef :
       tmuxPaneBootstrapRef[paneId] = [chunks |-> <<<<ChunkZ>>>>, totalBytes |-> ChunkBytes]

(***************************************************************************)
(* applyTmuxLayout's reconciliation of bindings and panes.                 *)
(***************************************************************************)

\* Window @1 with two panes, then with pane %0 alone, and a second window.
ReconcileLines == {WL_boot1b, WL_layout1a, WL_layout1, WL_add2}

ReconcileNext ==
  \/ \E c \in CtlIds : StartTmuxControl(c)
  \/ \E c \in CtlIds, line \in ReconcileLines, eager \in BOOLEAN :
        OnTmuxControlLine(c, line, eager)
  \/ Render
  \/ \E c \in CtlIds, eager \in BOOLEAN : OnPtyExitTmux(c, eager)

SpecReconcile == Init /\ [][ReconcileNext]_vars

\* livePaneIds after parseTmuxLayout or its catch branch
LivePanes(layout) ==
  IF ParsedLayout(layout).ok THEN PanesOf(ParsedLayout(layout).node) ELSE {S_pane0}

BoundTo(binding, tabId) == {tp \in DOMAIN binding : binding[tp].tabId = tabId}

\* The bindings and panes of the updater's tab match the layout.
TabMatchesLayout(u, S) ==
  LET bound == BoundTo(S.p2n[u.c], u.tabId)
      index == TabIndex(S.tabs, u.tabId)
  IN  /\ bound = LivePanes(u.layout)
      /\ index > 0
      /\ DOMAIN S.tabs[index].panes = {S.p2n[u.c][tp].paneId : tp \in bound}

\* The tab's bindings for panes the layout no longer lists are gone, with
\* the artifacts of their native panes.
StaleRemoved(u, R, S) ==
  \A tp \in BoundTo(R.p2n[u.c], u.tabId) \ LivePanes(u.layout) :
    LET paneId == R.p2n[u.c][tp].paneId IN
    /\ ~Has(S.p2n[u.c], tp)
    /\ ~Has(S.art.boot, paneId)
    /\ paneId \notin S.art.timers
    /\ paneId \notin S.art.hyd
    /\ ~Has(S.art.hist, paneId)

\* The bindings of other tabs are what they were.
OthersKept(u, R, S) ==
  /\ \A tp \in DOMAIN R.p2n[u.c] :
       R.p2n[u.c][tp].tabId # u.tabId
         => Has(S.p2n[u.c], tp) /\ S.p2n[u.c][tp] = R.p2n[u.c][tp]
  /\ \A c \in CtlIds \ {u.c} : S.p2n[c] = R.p2n[c]

\* P holds of every queued applyTmuxLayout updater, the state it will run on
\* and the state it returns.
ForEachLayoutUpdate(P(_, _, _)) ==
  \A i \in DOMAIN pendingTabs :
    pendingTabs[i].k = "layout" =>
      \E R \in {ApplyUpdates(SubSeq(pendingTabs, 1, i - 1), RenderState)} :
      \E S \in {ApplyUpdate(pendingTabs[i], R)} :
        P(pendingTabs[i], R, S)

\* C25: when applyTmuxLayout's updater has run, the tmux panes bound to its
\* tab are exactly the panes of the layout and the tab's panes map holds
\* exactly their native ids; a binding of the tab for a pane the layout no
\* longer lists is removed with its bootstrap buffer, flush timer, hydration
\* mark and history; and the bindings of other tabs are unchanged.
C25_LayoutReconciles ==
  ForEachLayoutUpdate(LAMBDA u, R, S :
    /\ TabMatchesLayout(u, S)
    /\ StaleRemoved(u, R, S)
    /\ OthersKept(u, R, S))

(***************************************************************************)
(* The active pane of a tab.                                               *)
(***************************************************************************)

\* tmux with panes %0 and %1 in window @1 and pane %2 in a new window @2:
\* the lines it sends for the two windows and for a change of the active
\* pane of @1.
ActiveLines == {WL_boot1b, WL_add2, WL_layout2, WL_paneChanged0}

ActiveNext ==
  \/ MenuNewTab
  \/ \E created \in BOOLEAN : CreateLocalTabResolved(created)
  \/ \E direction \in {"horizontal"} : MenuSplit(direction)
  \/ \E created \in BOOLEAN : SplitResolved(created)
  \/ MenuClosePane
  \/ Render
  \/ \E c \in CtlIds : StartTmuxControl(c)
  \/ \E c \in CtlIds, line \in ActiveLines, eager \in BOOLEAN :
        OnTmuxControlLine(c, line, eager)
  \/ \E c \in CtlIds, eager \in BOOLEAN : OnPtyExitTmux(c, eager)

SpecActive == Init /\ [][ActiveNext]_vars

ActiveIsKey(ts) == \A i \in DOMAIN ts : Has(ts[i].panes, ts[i].activePaneId)

\* The active pane applyTmuxLayout's updater leaves: the one before if the
\* tab still has it, else the first pane of the layout.
LayoutKeepsActive(u, R, S) ==
  LET before == TabIndex(R.tabs, u.tabId)
      after == TabIndex(S.tabs, u.tabId)
  IN  after > 0 =>
        S.tabs[after].activePaneId =
          IF before > 0 /\ Has(S.tabs[after].panes, R.tabs[before].activePaneId)
          THEN R.tabs[before].activePaneId
          ELSE collectPaneIds(S.tabs[after].layout)[1]

\* The active pane closeActivePane's updater leaves in a tab it takes a pane
\* from: the first pane of the layout that remains.
CloseSelectsFirst ==
  \A i \in DOMAIN pendingTabs :
    pendingTabs[i].k = "closePane" =>
      \E R \in {ApplyUpdates(SubSeq(pendingTabs, 1, i - 1), RenderState)} :
      \E S \in {ApplyUpdate(pendingTabs[i], R)} :
        \A j \in DOMAIN R.tabs :
          S.tabs[j] # R.tabs[j] =>
            /\ ~Has(S.tabs[j].panes, R.tabs[j].activePaneId)
            /\ S.tabs[j].activePaneId = collectPaneIds(S.tabs[j].layout)[1]
            /\ ActiveIsKey(S.tabs)

\* C26: the active pane of every tab is one of the tab's panes;
\* applyTmuxLayout keeps the active pane the tab had when the new layout still
\* has it and takes the first pane of the new layout otherwise; closing the
\* active local pane makes the first pane of the remaining layout active.
C26_ActivePaneIsKey ==
  /\ ActiveIsKey(tabs)
  /\ ForEachLayoutUpdate(LayoutKeepsActive)
  /\ CloseSelectsFirst

(***************************************************************************)
(* Layout strings that do not parse.                                       *)
(***************************************************************************)

MalformedNext ==
  \/ \E c \in CtlIds : StartTmuxControl(c)
  \/ \E c \in CtlIds, line \in {WL_boot1b} \cup MalformedLines, eager \in BOOLEAN :
        OnTmuxControlLine(c, line, eager)
  \/ Render

SpecMalformed == Init /\ [][MalformedNext]_vars

\* The tab of the updater's window is a single pane, the native pane bound
\* to tmux pane %0.
FallbackInstalled(u, R, S) ==
  LET index == TabIndex(S.tabs, u.tabId) IN
  /\ Has(S.p2n[u.c], S_pane0)
  /\ S.p2n[u.c][S_pane0].tabId = u.tabId
  /\ index > 0
  /\ S.tabs[index].tmuxWindowId = u.windowId
  /\ S.tabs[index].layout = singlePaneLayout(S.p2n[u.c][S_pane0].paneId)
  /\ DOMAIN S.tabs[index].panes = {S.p2n[u.c][S_pane0].paneId}
  /\ S.tabs[index].activePaneId = S.p2n[u.c][S_pane0].paneId
  /\ BoundTo(S.p2n[u.c], u.tabId) = {S_pane0}

\* C27: applyTmuxLayout with a layout string the parser rejects (empty, cut
\* off, without a pane id, without children, not a layout) ends with the
\* window's tab showing a single pane bound to tmux pane %0; the handler
\* completes as it does for a layout that parses, the lines after it being
\* handled.
C27_MalformedLayoutFallsBack ==
  /\ \A l \in MalformedLayouts : ~ParsedLayout(l).ok
  /\ ForEachLayoutUpdate(LAMBDA u, R, S :
       ~ParsedLayout(u.layout).ok => FallbackInstalled(u, R, S))
  /\ \A i \in DOMAIN pendingTabs :
       pendingTabs[i].k = "layout" =>
         /\ Has(windowToTab[pendingTabs[i].c], pendingTabs[i].windowId)
         /\ <<pendingTabs[i].c, pendingTabs[i].tabId>> \in layoutTimers

\* A layout the parser rejects is about to replace the two panes of a window,
\* another line having been handled after it.
C27_Witness ==
  \E i \in DOMAIN pendingTabs :
    /\ pendingTabs[i].k = "layout"
    /\ ~ParsedLayout(pendingTabs[i].layout).ok
    /\ i < Len(pendingTabs)
    /\ \E j \in DOMAIN tabs :
         /\ tabs[j].id = pendingTabs[i].tabId
         /\ Cardinality(DOMAIN tabs[j].panes) = 2

(***************************************************************************)
(* Closing tabs and panes from the UI.                                     *)
(***************************************************************************)

CloseNext ==
  \/ \E created \in BOOLEAN : CreateLocalTabResolved(created)
  \/ \E direction \in {"horizontal"} : MenuSplit(direction)
  \/ \E created \in BOOLEAN : SplitResolved(created)
  \/ MenuClosePane
  \/ \E tabId \in TabIds(tabsRef) : CloseTab(tabId)
  \/ Render
  \/ \E c \in CtlIds : StartTmuxControl(c)
  \/ \E c \in CtlIds, line \in {WL_boot1b, WL_add2}, eager \in BOOLEAN :
        OnTmuxControlLine(c, line, eager)

SpecClose == Init /\ [][CloseNext]_vars

TabById(tabId) == tabsRef[TabIndex(tabsRef, tabId)]

TmuxBound(tab) == Len(tab.tmuxWindowId) > 0 /\ tab.controlPtyId # ""

\* What a close leaves alone when it only writes a command to a control PTY.
OnlyWrites(c, data) ==
  /\ ptyWrites' = [ptyWrites EXCEPT ![c] = Append(@, UiCommand(data))]
  /\ UNCHANGED <<reactVars, bindingVars, artifactVars, bootVars, taskVars,
                 controllersRef, ptyVars, ptyKills, tabsExpected>>

\* C28: closing a tab bound to a tmux window with its close button writes one
\* command to the tab's control PTY, detach-client when the tab is the only
\* one of its control session and kill-window -t @N otherwise, and changes
\* neither the tab list, the pending updates, the controller maps, the pane
\* artifacts nor the PTY sessions.
C28_CloseTmuxTabOnlyWrites ==
  [][\A tabId \in TabIds(tabsRef) :
       (TmuxBound(TabById(tabId)) /\ CloseTab(tabId))
         => OnlyWrites(TabById(tabId).controlPtyId,
              IF Cardinality({i \in DOMAIN tabsRef :
                    tabsRef[i].controlPtyId = TabById(tabId).controlPtyId}) = 1
              THEN S_detachClient
              ELSE S_killWindow \o TabById(tabId).tmuxWindowId \o S_nl)]_vars

\* A tab of a control session with two tabs was closed, and both are shown.
C28_Witness ==
  /\ Settled
  /\ Len(tabs) = 2
  /\ \E c \in CtlIds, i \in DOMAIN tabs :
       /\ Len(ptyWrites[c]) > 0
       /\ ptyWrites[c][Len(ptyWrites[c])] =
            UiCommand(S_killWindow \o tabs[i].tmuxWindowId \o S_nl)
       /\ \A j \in DOMAIN tabs : tabs[j].controlPtyId = c

\* The tabs the next render will show, before and after the step.
TabsDue == ApplyUpdates(pendingTabs, RenderState).tabs

TabsDueNext ==
  ApplyUpdates(pendingTabs',
               [tabs |-> tabs', p2n |-> paneToNative',
                art |-> [boot |-> tmuxPaneBootstrapRef', timers |-> bootstrapTimers',
                         hyd |-> tmuxHydrateStartedRef', hist |-> paneHistoryRef',
                         wlog |-> writerLog', flog |-> flushLog',
                         grid |-> paneGridSizeRef', psize |-> tmuxPaneSizeRef'],
                uidPane |-> uidPane', act |-> pendingActive',
                tasks |-> localTabTasks']).tabs

\* closeActivePane on a local pane of a tab with other panes: the PTY of the
\* pane is killed, its mapping and artifacts are dropped, and the tab the next
\* render shows has lost this pane and no other.
LocalPaneClosed(activeTab, paneId) ==
  LET ptyId == activeTab.panes[paneId].ptyId IN
  /\ ptyKills' = Append(ptyKills, ptyId)
  /\ localPtyToPaneRef' = MapDel(localPtyToPaneRef, {ptyId})
  /\ ~Has(paneHistoryRef', paneId)
  /\ UNCHANGED <<ptyWrites, windowToTab, paneToNative, tabs>>
  /\ \E before \in {TabsDue} : \E after \in {TabsDueNext} :
       /\ TabIds(after) = TabIds(before)
       /\ \A i \in DOMAIN after :
            IF after[i].id # activeTab.id THEN after[i] = before[i]
            ELSE /\ DOMAIN after[i].panes = DOMAIN before[i].panes \ {paneId}
                 /\ SeqToSet(collectPaneIds(after[i].layout)) = DOMAIN after[i].panes

\* closeActivePane on the only pane of a local tab: the tab is closed.
LocalTabClosed(activeTab) ==
  /\ ptyKills' = ptyKills \o PtyIdsOf(activeTab, DOMAIN activeTab.panes)
  /\ \E after \in {TabsDueNext} : activeTab.id \notin TabIds(after)

\* C29: close-pane on a tmux pane only writes kill-pane -t %N to the pane's
\* control PTY; on a local pane of a tab with more panes it removes that pane
\* from the tab's layout and panes map, kills its PTY and drops its mapping,
\* leaving the other panes and tabs as they were; on the only pane of a local
\* tab it closes the tab.
C29_ClosePaneByKind ==
  [][MenuClosePane =>
       LET activeTab == getActiveTab
           paneId == activeTab.activePaneId
       IN  (activeTab # NoTab /\ Has(activeTab.panes, paneId)) =>
             IF activeTab.panes[paneId].type = "tmux"
             THEN OnlyWrites(activeTab.panes[paneId].controlPtyId,
                             S_killPane \o activeTab.panes[paneId].tmuxPaneId \o S_nl)
             ELSE IF Cardinality(DOMAIN activeTab.panes) > 1
             THEN LocalPaneClosed(activeTab, paneId)
             ELSE LocalTabClosed(activeTab)]_vars

(***************************************************************************)
(* The exit of a local shell.                                              *)
(***************************************************************************)
Backends == {"pty", "pipe"}

ShellExitNext ==
  \/ \E created \in BOOLEAN, backend \in Backends :
        CreateLocalTabSettled(created, backend)
  \/ \E direction \in {"horizontal"} : MenuSplit(direction)
  \/ \E created \in BOOLEAN, backend \in Backends : SplitSettled(created, backend)
  \/ MenuClosePane
  \/ Render
  \/ \E ptyId \in 1..uidPty, exitCode \in ExitCodes : OnPtyExitShell(ptyId, exitCode)
  \/ \E tabId \in TabIds(tabsRef), paneId \in 1..uidPane, input \in PaneInputs :
        HandleLocalPaneInput(tabId, paneId, input)

SpecShellExit == Init /\ [][ShellExitNext]_vars

\* The exit notices among the writes to a pane.
ExitNotices(log, paneId) ==
  IF Has(log, paneId) THEN SelectSeq(log[paneId], LAMBDA e : e.via = "exit") ELSE << >>

PanesShown(ts) == UNION {DOMAIN ts[i].panes : i \in DOMAIN ts}

\* The exit of the shell bound to a pane writes the notice to that pane and
\* leaves the tabs, the active tab and the queued updates as they were.
ExitReported ==
  \A ptyId \in DOMAIN localPtyToPaneRef, exitCode \in ExitCodes :
    OnPtyExitShell(ptyId, exitCode) =>
      /\ writerLog' = LogAppend(writerLog, localPtyToPaneRef[ptyId].paneId,
                                [data |-> ExitNotice(exitCode), via |-> "exit"])
      /\ UNCHANGED <<reactVars, windowToTab, paneToNative, taskVars>>

\* No pane is ever written more than one notice.
OneNotice == \A paneId \in DOMAIN writerLog' : Len(ExitNotices(writerLog', paneId)) <= 1

\* A pane whose shell has exited leaves the tabs only by a close action.
StaysUntilClosed ==
  \A paneId \in PanesShown(TabsDue) \ PanesShown(TabsDueNext) :
    Len(ExitNotices(writerLog, paneId)) > 0 => MenuClosePane

\* Input to a pane whose shell has exited changes nothing.
InputIgnored ==
  \A tabId \in TabIds(tabsRef), paneId \in 1..uidPane, input \in PaneInputs :
    (HandleLocalPaneInput(tabId, paneId, input) /\ Len(ExitNotices(writerLog, paneId)) > 0)
      => UNCHANGED vars

\* C30: when a local shell PTY reports exit, exactly one notice
\* "[Process exited with code N]" is written to the pane bound to it and the
\* tab list, the tab's layout, panes map and active pane are unchanged; the
\* pane stays until the user closes it, and later input to it changes no state.
C30_ShellExitReported ==
  [][ExitReported /\ OneNotice /\ StaysUntilClosed /\ InputIgnored]_vars

(***************************************************************************)
(* The size of the tmux client follows the sizes of the panes.             *)
(***************************************************************************)
SizeLines == {WL_boot1, WL_boot1b, WL_layout1a}

SizeNext ==
  \/ \E c \in CtlIds : StartTmuxControl(c)
  \/ \E c \in CtlIds, line \in SizeLines, eager \in BOOLEAN :
        OnTmuxControlLine(c, line, eager)
  \/ Render
  \/ \E tabId \in TabIds(tabsRef), paneId \in 1..uidPane, cols \in GridCols,
        rows \in GridRows : HandleTmuxPaneResize(tabId, paneId, cols, rows)
  \/ ClientSizeFrame
  \/ \E tabId \in TabIds(tabsRef) : DragRelease(tabId)

SpecSize == Init /\ [][SizeNext]_vars

\* What a step appended to a log of a control PTY.
Appended(old, new) == SubSeq(new, Len(old) + 1, Len(new))

NewWrites(c) == Appended(ptyWrites[c], ptyWrites'[c])
NewResizes(c) == Appended(ptyResizes[c], ptyResizes'[c])

IsRefreshClient(e) == StartsWith(e.data, S_refreshClient)
IsResizePane(e) == StartsWith(e.data, S_resizePane)

\* A resizePty and a refresh-client with the same size come together.
SyncPairs(c) ==
  LET refreshes == SelectSeq(NewWrites(c), IsRefreshClient) IN
  /\ IsPrefix(ptyWrites[c], ptyWrites'[c]) /\ IsPrefix(ptyResizes[c], ptyResizes'[c])
  /\ Len(refreshes) = Len(NewResizes(c))
  /\ \A i \in DOMAIN refreshes :
       refreshes[i] = UiCommand(RefreshClient(NewResizes(c)[i]))

\* The size sent is that of a tab of the session all of whose leaves have
\* reported a size, and is at least 10 by 5.
SyncMeasured(c) ==
  \A i \in DOMAIN NewResizes(c) :
    LET size == NewResizes(c)[i] IN
    /\ size.cols >= 10 /\ size.rows >= 5
    /\ \E t \in DOMAIN tabsRef :
         /\ tabsRef[t].controlPtyId = c
         /\ SeqToSet(collectPaneIds(tabsRef[t].layout)) \subseteq DOMAIN paneGridSizeRef'
         /\ \E measured \in {measureLayoutGridSize(tabsRef[t].layout, paneGridSizeRef')} :
              size = PaneGridSize(Max(10, measured.cols), Max(5, measured.rows))

\* The size sent differs from the last one sent for the session.
SyncChanged(c) ==
  /\ (Len(NewResizes(c)) > 0 /\ Has(tmuxClientSizeRef, c))
        => NewResizes(c)[1] # tmuxClientSizeRef[c]
  /\ \A i \in 1..(Len(ptyResizes'[c]) - 1) : ptyResizes'[c][i] # ptyResizes'[c][i + 1]
  /\ Len(ptyResizes'[c]) > 0 =>
       /\ Has(tmuxClientSizeRef', c)
       /\ tmuxClientSizeRef'[c] = ptyResizes'[c][Len(ptyResizes'[c])]

\* resize-pane is written for a pane whose size differs from the last sent.
PaneResized(c) ==
  \A i \in DOMAIN NewWrites(c) :
    LET e == NewWrites(c)[i] IN
    /\ IsRefreshClient(e) \/ IsResizePane(e)
    /\ IsResizePane(e) =>
         \E t \in DOMAIN tabsRef : \E p \in DOMAIN tabsRef[t].panes :
           /\ Has(tmuxPaneSizeRef', p)
           /\ ~Has(tmuxPaneSizeRef, p) \/ tmuxPaneSizeRef[p] # tmuxPaneSizeRef'[p]
           /\ e = UiCommand(ResizePane(tabsRef[t].panes[p].tmuxPaneId, tmuxPaneSizeRef'[p]))

\* C31: a client-size sync calls resizePty and writes refresh-client -C CxR
\* together, with C >= 10 and R >= 5, only when every leaf of the tab's layout
\* has a reported size and the size differs from the last one sent for the
\* control session, so that a repeated sync of the same size sends nothing;
\* resize-pane is written only when the size of that pane changed.
C31_ClientSizeSync ==
  [][\A c \in CtlIds :
       SyncPairs(c) /\ SyncMeasured(c) /\ SyncChanged(c) /\ PaneResized(c)]_vars

\* Two different client sizes were sent, and a pane was resized.
C31_Witness ==
  \E c \in CtlIds :
    /\ Len(ptyResizes[c]) >= 2
    /\ \E i \in DOMAIN ptyWrites[c] : IsResizePane(ptyWrites[c][i])
    /\ \E i \in DOMAIN ptyWrites[c] : IsRefreshClient(ptyWrites[c][i])

(***************************************************************************)
(* The tmux probe through the shell of the one local tab: probes started   *)
(* from the menu, the data of the shell in chunks of at most one line, the *)
(* exit of the shell and the 2.2 s timers.                                 *)
(***************************************************************************)
ProbeNumbers == 1..MaxProbes

\* What the shell may print for a probe: its markers, a context line of an
\* ssh login, a coloured session name, and a name without its newline yet.
ProbeChunks(token) ==
  {startMarker(token) \o S_crnl,
   S_ptmuxCtx \o <<"u", ":", ":", "h", ":", ":", "c", "\n">>,
   <<"ESC", "[", "0", "m", "s", "\n">>,
   <<"s">>,
   endMarker(token) \o S_nl}

ProbeNext ==
  \/ CreateLocalTabResolved(TRUE)
  \/ Render
  \/ OpenTmuxPicker
  \/ \E ptyId \in DOMAIN shellSessions, n \in 1..probeSeq :
       \E data \in ProbeChunks(probeToken(n)) : OnPtyDataShell(ptyId, data)
  \/ \E ptyId \in DOMAIN shellSessions, exitCode \in {0} : OnPtyExitShell(ptyId, exitCode)
  \/ \E timer \in probeTimers : ProbeTimeout(timer)

SpecProbe == Init /\ [][ProbeNext]_vars

\* The probes with a pending timer fire it when it is due.
SpecProbeLive ==
  /\ Init
  /\ [][ProbeNext]_vars
  /\ WF_vars(\E timer \in probeTimers : ProbeTimeout(timer))

ResolvedTokens == {probeResolved[i].token : i \in DOMAIN probeResolved}

\* No probe resolves twice, and a probe that timed out resolves with no
\* session and the local machine as its source.
ProbeResolvedOnce ==
  /\ \A i, j \in DOMAIN probeResolved :
       probeResolved[i].token = probeResolved[j].token => i = j
  /\ \A i \in DOMAIN probeResolved :
       probeResolved[i].via = "timeout" =>
         /\ probeResolved[i].sessions = << >>
         /\ probeResolved[i].sourceLabel = S_localMachine

\* The lines of a probe that name a session.
SessionLines(lines) ==
  {lines[i] : i \in {k \in DOMAIN lines :
                       /\ Len(lines[k]) > 0
                       /\ ~StartsWith(lines[k], S_ptmux)
                       /\ ~Includes(lines[k], S_listSessions)
                       /\ ~Includes(lines[k], S_ptmuxBegin)}}

\* A probe resolved by its end marker resolves with the session lines the
\* probe had collected since its begin marker, each once.
ResolvedByEnd ==
  \A ptyId \in DOMAIN shellTmuxProbeRef :
    LET pending == shellTmuxProbeRef[ptyId] IN
    (Len(probeResolved') = Len(probeResolved) + 1
       /\ probeResolved'[Len(probeResolved')].token = pending.token
       /\ probeResolved'[Len(probeResolved')].via = "end")
    => LET result == probeResolved'[Len(probeResolved')] IN
       /\ pending.collecting
       /\ [token |-> pending.token, ptyId |-> ptyId] \in probeTimers
       /\ {result.sessions[i] : i \in DOMAIN result.sessions} = SessionLines(pending.lines)
       /\ Cardinality(SessionLines(pending.lines)) = Len(result.sessions)

\* C32: every shell tmux probe resolves exactly once: with the lines
\* collected between its markers when the end marker arrives before the
\* 2.2 s timeout, otherwise with "Local machine" and no sessions, whatever
\* the interleaving of shell data, shell exit, timeout and a second probe.
C32_ProbeResolvesOnce ==
  /\ []ProbeResolvedOnce
  /\ [][ResolvedByEnd]_vars
  /\ \A n \in ProbeNumbers :
       (probeSeq >= n) ~> (probeToken(n) \in ResolvedTokens)

\* The pane ids of a sequence without one of them, in their order.
Without(ids, paneId) == SelectSeq(ids, LAMBDA id : id # paneId)

\* What removePaneFromLayout is to return for layout L and pane p: L itself
\* when p is no leaf of L; nothing when L is the pane p; otherwise a layout
\* with the other leaves in their order, one split fewer, and every split
\* that of L with the same direction and ratio and p taken from its sides.
RemovedAsSpecified(L, p, result) ==
  IF p \notin SeqToSet(collectPaneIds(L)) THEN result = L
  ELSE /\ (result = NullNode) <=> (L.type = "pane")
       /\ result # NullNode =>
            /\ collectPaneIds(result) = Without(collectPaneIds(L), p)
            /\ Cardinality(SplitsOf(result)) = Cardinality(SplitsOf(L)) - 1
            /\ \A s \in SplitsOf(result) : \E t \in SplitsOf(L) :
                 /\ s.direction = t.direction
                 /\ s.ratio = t.ratio
                 /\ collectPaneIds(s.first) = Without(collectPaneIds(t.first), p)
                 /\ collectPaneIds(s.second) = Without(collectPaneIds(t.second), p)

\* C33: removing a leaf leaves the other panes in their order, replaces the
\* split that lost a child by the surviving child, keeps direction and ratio
\* of the other splits, and gives no layout exactly for the single pane;
\* removing a pane that is no leaf returns the layout unchanged.
C33_RemovePane ==
  [][\A paneId \in 1..MaxLayoutPanes :
       LayoutRemove(paneId) =>
         RemovedAsSpecified(tabs[1].layout, paneId,
                            IF Len(tabs') = 0 THEN NullNode ELSE tabs'[1].layout)]_vars

\* Pane 2 removed from under a root split dragged to 0.3: panes 1 and 3 are
\* the children of the root, which kept its ratio.
C33_Witness ==
  /\ Len(tabs) = 1
  /\ tabs[1].layout.type = "split"
  /\ tabs[1].layout.ratio = <<3, 10>>
  /\ tabs[1].layout.first = singlePaneLayout(1)
  /\ tabs[1].layout.second = singlePaneLayout(3)

(***************************************************************************)
(* parseTmuxLayout on the layout strings of windows with two to four       *)
(* cells side by side or one above the other, one cell being a nested      *)
(* container in some, with and without the leading checksum.  A cell is    *)
(* described by [kind, w, h, direction, kids].                             *)
(***************************************************************************)
FoldSpans == {1, 9, 40}
FoldCross == 24

RECURSIVE SumOf(_)
SumOf(numbers) == IF Len(numbers) = 0 THEN 0 ELSE Head(numbers) + SumOf(Tail(numbers))

PaneCell(w, h) == [kind |-> "pane", w |-> w, h |-> h, direction |-> "", kids |-> << >>]

\* A container takes the spans of its cells and a divider between them.
BoxCell(direction, kids) ==
  [kind |-> "box",
   w |-> IF direction = "horizontal"
         THEN SumOf([i \in DOMAIN kids |-> kids[i].w]) + Len(kids) - 1 ELSE kids[1].w,
   h |-> IF direction = "vertical"
         THEN SumOf([i \in DOMAIN kids |-> kids[i].h]) + Len(kids) - 1 ELSE kids[1].h,
   direction |-> direction, kids |-> kids]

SpanCell(direction, span, cross) ==
  IF direction = "horizontal" THEN PaneCell(span, cross) ELSE PaneCell(cross, span)

Other(direction) == IF direction = "horizontal" THEN "vertical" ELSE "horizontal"

FoldRows ==
  {BoxCell(direction, [i \in DOMAIN spans |-> SpanCell(direction, spans[i], FoldCross)]) :
     direction \in Directions,
     spans \in UNION {[1..n -> FoldSpans] : n \in 2..MaxLayoutPanes}}

FoldNested ==
  UNION {{BoxCell(direction,
                  <<BoxCell(Other(direction),
                            <<SpanCell(Other(direction), a, 40),
                              SpanCell(Other(direction), b, 40)>>),
                    SpanCell(direction, 9, a + b + 1)>>),
          BoxCell(direction,
                  <<SpanCell(direction, 9, a + b + 1),
                    BoxCell(Other(direction),
                            <<SpanCell(Other(direction), a, 40),
                              SpanCell(Other(direction), b, 40)>>),
                    SpanCell(direction, 1, a + b + 1)>>)} :
           direction \in Directions, a \in FoldSpans, b \in FoldSpans}

FoldCells == FoldRows \cup FoldNested

RECURSIVE CellPanes(_)
CellPanes(cell) ==
  IF cell.kind = "pane" THEN 1
  ELSE SumOf([i \in DOMAIN cell.kids |-> CellPanes(cell.kids[i])])

\* The layout string of a cell at offset (x, y) whose first pane is %first,
\* as tmux prints it.
RECURSIVE CellText(_, _, _, _)
CellText(cell, x, y, first) ==
  LET head == NatToStr(cell.w) \o <<"x">> \o NatToStr(cell.h) \o <<",">>
                \o NatToStr(x) \o <<",">> \o NatToStr(y)
      before(i) == SubSeq(cell.kids, 1, i - 1)
      kidText(i) ==
        CellText(cell.kids[i],
                 IF cell.direction = "horizontal"
                 THEN x + SumOf([k \in 1..(i - 1) |-> cell.kids[k].w]) + i - 1 ELSE x,
                 IF cell.direction = "vertical"
                 THEN y + SumOf([k \in 1..(i - 1) |-> cell.kids[k].h]) + i - 1 ELSE y,
                 first + SumOf([k \in 1..(i - 1) |-> CellPanes(cell.kids[k])]))
  IN
  IF cell.kind = "pane" THEN head \o <<",">> \o NatToStr(first)
  ELSE head \o <<(IF cell.direction = "horizontal" THEN "{" ELSE "[")>>
         \o Join([i \in DOMAIN cell.kids |-> kidText(i)], <<",">>)
         \o <<(IF cell.direction = "horizontal" THEN "}" ELSE "]")>>

S_checksum == <<"9", "d", "2", "f", ",">>

\* parseTmuxLayout of the layout string of a line, for a window that has no
\* tab yet, with the mapPane of applyTmuxLayout: the layout and the bindings
\* it returns.
FoldLayout(layout) ==
  /\ Len(tabs) = 0
  /\ linesFramed' = [linesFramed EXCEPT !["c1"] = <<layout>>]
  /\ \E mapped \in {parseTmuxLayout(layout, RenderState, "c1", 1)} :
       /\ tabs' = <<LayoutTab(mapped.layout)>>
       /\ paneToNative' = mapped.R.p2n
       /\ uidPane' = mapped.R.uidPane
  /\ UNCHANGED <<controllersRef, ctlPhase, captureVars, ptyVars, tmuxLineBuffersRef,
                 streamFed, shellSessions, sizeVars, probeVars, tmuxReplies, activeTabId, tabsRef,
                 activeTabIdRef, pendingTabs, pendingActive, windowToTab,
                 localPtyToPaneRef, artifactVars, bootVars, taskVars, historyVars,
                 uidTab, uidPty, linesHandled, menuActions>>

FoldNext ==
  \E cell \in FoldCells, checksum \in {<< >>, S_checksum} :
    FoldLayout(checksum \o CellText(cell, 0, 0, 1))

SpecFold == Init /\ [][FoldNext]_vars

\* The span of a cell along a direction.
SpanOf(cell, direction) == IF direction = "horizontal" THEN cell.w ELSE cell.h

\* n / d clamped to [0.1, 0.9]
ClampedRatio(n, d) ==
  IF 10 * n < d THEN <<1, 10>> ELSE IF 10 * n > 9 * d THEN <<9, 10>> ELSE Ratio(n, d)

\* The tree the cell is to become, panes numbered from `first` in the order
\* of the text: the first k cells of a container fold into a split of the
\* fold of the first k - 1 cells and the k-th cell, its ratio the span of the
\* former over the span of both.
RECURSIVE FoldedTree(_, _)
RECURSIVE FoldedPrefix(_, _, _)
FoldedPrefix(cell, k, first) ==
  IF k = 1 THEN FoldedTree(cell.kids[1], first)
  ELSE LET currentSpan == SumOf([i \in 1..(k - 1) |-> SpanOf(cell.kids[i], cell.direction)])
           nextSpan == SpanOf(cell.kids[k], cell.direction)
       IN [type |-> "split", direction |-> cell.direction,
           ratio |-> ClampedRatio(currentSpan, currentSpan + nextSpan),
           first |-> FoldedPrefix(cell, k - 1, first),
           second |-> FoldedTree(cell.kids[k],
                        first + SumOf([i \in 1..(k - 1) |-> CellPanes(cell.kids[i])]))]

FoldedTree(cell, first) ==
  IF cell.kind = "pane" THEN [type |-> "pane", paneId |-> first]
  ELSE FoldedPrefix(cell, Len(cell.kids), first)

\* C34: the cells of a container fold into a left-leaning tree of splits
\* with the panes in the order of the text, horizontal for {} and vertical
\* for [], each ratio the span folded so far over that span plus the next
\* cell's, clamped to [0.1, 0.9]; a leading checksum changes nothing.
C34_FoldChildren ==
  \A cell \in FoldCells, checksum \in {<< >>, S_checksum} :
    linesFramed["c1"] = <<checksum \o CellText(cell, 0, 0, 1)>> =>
      /\ Len(tabs) = 1
      /\ tabs[1].layout = FoldedTree(cell, 1)
      /\ \A k \in 1..CellPanes(cell) :
           /\ Has(paneToNative["c1"], <<"%">> \o NatToStr(k))
           /\ paneToNative["c1"][<<"%">> \o NatToStr(k)].paneId = k

\* Four cells of 40, 1, 9 and 40 columns: the inner ratios are 40/41 clamped
\* to 0.9 and 41/50, the root's 50/90.
C34_Witness ==
  /\ Len(tabs) = 1
  /\ collectPaneIds(tabs[1].layout) = <<1, 2, 3, 4>>
  /\ tabs[1].layout.direction = "horizontal"
  /\ tabs[1].layout.ratio = <<5, 9>>
  /\ tabs[1].layout.first.ratio = <<41, 50>>
  /\ tabs[1].layout.first.first.ratio = <<9, 10>>

(***************************************************************************)
(* parseTmuxControlLine on %output lines for pane %3 whose data is any     *)
(* string of up to MaxPayload characters out of a backslash, the digits    *)
(* 1, 3 and 4, n and a, or one of a few longer ones.                       *)
(***************************************************************************)
PayloadChars == {"\\", "1", "3", "4", "n", "a"}

\* hello\nworld\134 of scenario 4, with single and with doubled backslashes
Payload_scenario == <<"h", "e", "l", "l", "o", "\\", "n", "w", "o", "r", "l", "d", "\\", "1", "3",
    "4">>
Payload_scenarioDoubled == <<"h", "e", "l", "l", "o", "\\", "\\", "n", "w", "o", "r", "l", "d", "\\", "\\",
    "1", "3", "4">>

OutputPayloads ==
  UNION {[1..n -> PayloadChars] : n \in 0..MaxPayload}
    \cup {Payload_scenario, Payload_scenarioDoubled,
          <<"\\", "r">>, <<"a", "\\", "t", "a">>, <<"\\", "1", "8", "1">>,
          <<"\\", "0", "1", "2">>, <<"\\", "0", "1", "5", "\\", "0", "1", "1">>}

S_pane3 == <<"%", "3">>

\* The first line of a control PTY, and the event parseTmuxControlLine
\* returns for it, kept when it is an output event.
ParseOutputLine(c, line) ==
  /\ linesFramed[c] = << >>
  /\ linesFramed' = [linesFramed EXCEPT ![c] = <<line>>]
  /\ \E parsed \in {parseTmuxControlLine(line)} :
       outputArrived' =
         IF parsed.type = "output"
         THEN <<[paneId |-> parsed.paneId, data |-> parsed.data]>>
         ELSE << >>
  /\ UNCHANGED <<controllersRef, ctlPhase, captureVars, ptyVars, tmuxLineBuffersRef,
                 streamFed, shellSessions, sizeVars, probeVars, tmuxReplies, reactVars,
                 bindingVars, artifactVars, bootVars, taskVars, counterVars,
                 tabsExpected, reportedIn, ptyKills>>

OutputHead == S_output \o <<" ">> \o S_pane3 \o <<" ">>

DecodeNext ==
  \E payload \in OutputPayloads : ParseOutputLine("c1", OutputHead \o payload)

SpecDecode == Init /\ [][DecodeNext]_vars

\* The character a backslash and a character that is no escape stand for.
Escaped(ch) == CASE ch = "n" -> "\n" [] ch = "r" -> "\r" [] ch = "t" -> "\t" [] OTHER -> ch

\* The rules of the data field, applied from the left: [text, whole], whole
\* being FALSE when the data ends in a backslash with nothing after it.
RECURSIVE Unescaped(_)
Unescaped(data) ==
  IF Len(data) = 0 THEN [text |-> << >>, whole |-> TRUE]
  ELSE IF Head(data) # "\\"
  THEN [Unescaped(Tail(data)) EXCEPT !.text = <<Head(data)>> \o @]
  ELSE IF Len(data) = 1 THEN [text |-> << >>, whole |-> FALSE]
  ELSE IF data[2] = "\\"
  THEN [Unescaped(SubSeq(data, 3, Len(data))) EXCEPT !.text = <<"\\">> \o @]
  ELSE IF Len(data) >= 4 /\ \A k \in 2..4 : data[k] \in OctalDigits
  THEN [Unescaped(SubSeq(data, 5, Len(data))) EXCEPT
          !.text = <<FromCharCode(64 * DigitValue(data[2]) + 8 * DigitValue(data[3])
                                    + DigitValue(data[4]))>> \o @]
  ELSE [Unescaped(SubSeq(data, 3, Len(data))) EXCEPT !.text = <<Escaped(data[2])>> \o @]

ReplyLines == {L_begin, L_dataA, L_end, L_error}

\* tmux writes the next line of its answer to the first command not yet
\* answered, and the renderer handles it.
TmuxReplyLine(c, line, eager) ==
  LET reply == tmuxReplies[c]
      k == reply.closed + 1
  IN
  /\ k <= Len(ptyWrites[c])
  /\ CASE line = L_begin -> ~reply.open
       [] line = L_dataA -> reply.open /\ ptyWrites[c][k].req # 0
       [] OTHER -> reply.open
  /\ tmuxReplies' =
       [tmuxReplies EXCEPT
          ![c] = CASE line = L_begin -> [closed |-> reply.closed, open |-> TRUE]
                   [] line = L_dataA -> reply
                   [] OTHER -> [closed |-> k, open |-> FALSE]]
  /\ onPtyDataLine(c, line, ParsedLine(line), eager)

ReplyNext ==
  \/ \E c \in CtlIds : StartTmuxControl(c)
  \/ \E c \in CtlIds, line \in {WL_boot1}, eager \in BOOLEAN :
        OnTmuxControlLine(c, line, eager)
  \/ Render
  \/ \E tabId \in TabIds(tabsRef), paneId \in 1..uidPane, cols \in {40},
        rows \in {12} : HandleTmuxPaneResize(tabId, paneId, cols, rows)
  \/ \E c \in CtlIds, p \in {S_pane0} : captureTmuxPaneInBand(c, p)
  \/ \E c \in CtlIds, id \in 1..MaxCaptures : CaptureTimeout(c, id)
  \/ \E c \in CtlIds, line \in ReplyLines, eager \in BOOLEAN :
        TmuxReplyLine(c, line, eager)

SpecReply == Init /\ [][ReplyNext]_vars

\* The request whose command tmux is answering on a control PTY; 0 when
\* the command is no capture or no block is open.
AnsweredRequest(c) ==
  IF tmuxReplies[c].open /\ tmuxReplies[c].closed < Len(ptyWrites[c])
  THEN ptyWrites[c][tmuxReplies[c].closed + 1].req
  ELSE 0

\* A step that resolves a request through %end or %error.
ResolvedByBlock(c) ==
  /\ Len(captureResolved'[c]) = Len(captureResolved[c]) + 1
  /\ lastResolved'.via \in {"end", "error"}

\* A step that adds a line to the active request.
LineCollected(c) ==
  /\ tmuxCaptureActiveRef[c] # NoCapture
  /\ tmuxCaptureActiveRef'[c] # NoCapture
  /\ tmuxCaptureActiveRef'[c].id = tmuxCaptureActiveRef[c].id
  /\ Len(tmuxCaptureActiveRef'[c].lines) > Len(tmuxCaptureActiveRef[c].lines)

\* C36: a capture request is resolved through %end or %error, and given
\* lines, only by the block that answers its own command: not by the block
\* of another command written to the control PTY, nor by the late block of
\* a request that timed out.
C36_OwnBlockOnly ==
  [][\A c \in CtlIds :
       /\ ResolvedByBlock(c) => AnsweredRequest(c) = lastResolved'.id
       /\ LineCollected(c) => AnsweredRequest(c) = tmuxCaptureActiveRef[c].id]_vars

(***************************************************************************)
(* The fate of the capture requests, the 5 s timers firing when due        *)
(* (SpecCaptureLive) and the control PTY free to exit.                     *)
(***************************************************************************)
\* C37: every capture request enqueued is resolved in the end, by its
\* block, by %error or by its timer, the requests that are active or queued
\* when the control PTY exits included.
C37_EveryRequestResolved ==
  \A c \in CtlIds : \A id \in 1..MaxCaptures :
    (id \in SeqToSet(captureEnqueued[c])) ~> (id \in SeqToSet(captureResolved[c]))

(***************************************************************************)
(* Local shells against the tabs that hold them: splits and new tabs       *)
(* whose createPty is still under way while tabs and panes are closed and  *)
(* tabs are clicked.                                                       *)
(***************************************************************************)
\* A click on a tab of the strip: setActiveTabId(tab.id).
ClickTab(tabId) ==
  /\ linesHandled + menuActions < MaxEvents
  /\ menuActions' = menuActions + 1
  /\ TabIndex(tabs, tabId) > 0
  /\ pendingActive' = Append(pendingActive, ActUpd("set", 0, tabId))
  /\ UNCHANGED <<tabs, activeTabId, tabsRef, activeTabIdRef, pendingTabs, bindingVars,
                 artifactVars, bootVars, taskVars, uidTab, uidPane, uidPty,
                 linesHandled, historyVars>>
  /\ UNCHANGED <<controllersRef, ctlPhase, captureVars, ptyVars, framingVars,
                 shellSessions, sizeVars, probeVars, tmuxReplies>>

OrphanNext ==
  \/ MenuNewTab
  \/ \E created \in BOOLEAN : CreateLocalTabResolved(created)
  \/ \E direction \in {"horizontal", "vertical"} : MenuSplit(direction)
  \/ \E created \in BOOLEAN : SplitResolved(created)
  \/ MenuClosePane
  \/ \E tabId \in TabIds(tabsRef) : CloseTab(tabId)
  \/ \E tabId \in TabIds(tabs) : ClickTab(tabId)
  \/ Render

SpecOrphan == Init /\ [][OrphanNext]_vars

\* The panes of the tabs ts that hold the shell ptyId, as <<tab id, pane id>>.
HoldersOf(ts, ptyId) ==
  {h \in TabIds(ts) \X (1..uidPane) :
     \E i \in DOMAIN ts : /\ ts[i].id = h[1]
                          /\ Has(ts[i].panes, h[2])
                          /\ ts[i].panes[h[2]].ptyId = ptyId}

\* The shell ptyId is held by one pane of the tabs the next render shows,
\* and the pty-to-pane map names that pane.
HeldByOnePane(ptyId) ==
  \E due \in {TabsDue} :
    /\ Has(localPtyToPaneRef, ptyId)
    /\ HoldersOf(due, ptyId) =
         {<<localPtyToPaneRef[ptyId].tabId, localPtyToPaneRef[ptyId].paneId>>}

\* C38: every shell spawned for a new tab or a split and not killed is held
\* by exactly one pane of a tab, and by the pty-to-pane map, however the
\* spawn interleaves with the closing of tabs and panes and with tab clicks.
C38_NoOrphanShell ==
  \A ptyId \in DOMAIN shellSessions : HeldByOnePane(ptyId)

(***************************************************************************)
(* A tmux pane that moves between windows: the layouts of window @1 with   *)
(* %0 and %1 and with %0 alone, and of window @2 with %1 (break-pane and   *)
(* join-pane, by the order of the lines).                                  *)
(***************************************************************************)
RebindLines == {WL_layout1, WL_layout2moved, WL_layout1a}

RebindNext ==
  \/ \E c \in CtlIds : StartTmuxControl(c)
  \/ \E c \in CtlIds, line \in RebindLines, eager \in BOOLEAN :
        OnTmuxControlLine(c, line, eager)
  \/ Render
  \/ \E paneId \in bootstrapTimers : BootstrapFlushTimer(paneId)

SpecRebind == Init /\ [][RebindNext]_vars

\* The native panes that the bindings of the controllers point to.
BoundNativePanes ==
  UNION {{paneToNative[c][tp].paneId : tp \in DOMAIN paneToNative[c]} : c \in CtlIds}

\* C39: every bootstrap buffer, and every pending 15 s flush timer, is that
\* of a native pane some binding of paneToNative points to; the native pane
\* a tmux pane was bound to before it was rebound to another tab keeps
\* neither.
C39_BootstrapHasBinding ==
  /\ DOMAIN tmuxPaneBootstrapRef \subseteq BoundNativePanes
  /\ bootstrapTimers \subseteq BoundNativePanes

(***************************************************************************)
(* The control stream of a PTY from its spawn on: pty:data events reach    *)
(* the renderer's handler, subscribed at mount, whether or not             *)
(* startTmuxControl has resumed after its await.                           *)
(***************************************************************************)
\* The list-windows line of window @1, whole and cut in two.
EarlyHead == SubSeq(WL_boot1, 1, 4)
EarlyTail == SubSeq(WL_boot1, 5, Len(WL_boot1))
EarlyChunks == {WL_boot1 \o S_nl, EarlyHead, EarlyTail \o S_nl}

\* onPtyData for a tmux-control PTY: the data is framed and the lines are
\* handled; a payload here completes one line at most.
OnPtyDataControl(c, data, eager) ==
  /\ ctlPhase[c] \in {"spawned", "live"}
  /\ linesHandled + menuActions < MaxEvents
  /\ linesHandled' = linesHandled + 1
  /\ eager => CanRunEagerly
  /\ \E split \in {splitLines(tmuxLineBuffersRef[c], data)} :
       /\ Len(split.lines) <= 1
       /\ tmuxLineBuffersRef' = [tmuxLineBuffersRef EXCEPT ![c] = split.rest]
       /\ linesFramed' = [linesFramed EXCEPT ![c] = @ \o split.lines]
       /\ \E line \in {IF Len(split.lines) = 0 THEN << >> ELSE split.lines[1]} :
            handleTmuxControlLine(c, line, SniffLine(line), eager)
  /\ streamFed' = [streamFed EXCEPT ![c] = @ \o data]
  /\ UNCHANGED <<controllersRef, ctlPhase, captureSeq, captureEnqueued>>
  /\ UNCHANGED wsRest
  /\ UNCHANGED <<ptyVars, shellSessions, probeVars, tmuxReplies>>

EarlyNext ==
  \/ \E c \in CtlIds : SpawnTmuxControl(c)
  \/ \E c \in CtlIds : StartTmuxControl(c)
  \/ \E c \in CtlIds, data \in EarlyChunks, eager \in BOOLEAN :
        OnPtyDataControl(c, data, eager)
  \/ Render

SpecEarly == Init /\ [][EarlyNext]_vars

\* The lines handled and the line buffer are the control stream received,
\* which has no CR here.
StreamKept(c) ==
  Join(linesFramed[c] \o <<tmuxLineBuffersRef[c]>>, S_nl) = streamFed[c]

\* Every window line handled has its window bound to a tab.
WindowLinesApplied(c) ==
  \A i \in DOMAIN linesFramed[c] :
    LET parsedBootstrap == parseBootstrapWindowLine(linesFramed[c][i]) IN
    parsedBootstrap.ok => Has(windowToTab[c], parsedBootstrap.windowId)

\* C40: the control data that arrives between the spawn of a control PTY and
\* the registration of its controller is kept: the part of a line held in
\* the line buffer is still there after startTmuxControl has set up the
\* buffer, and a window line handled before the controller exists has its
\* window bound to a tab.
C40_EarlyDataKept ==
  \A c \in CtlIds : StreamKept(c) /\ WindowLinesApplied(c)

=============================================================================
